---- MODULE Spec2Model ----
(***************************************************************************)
(* State-machine model of the style-transfer engines of the repository.   *)
(* The repository holds several independent engines (separate crates and   *)
(* modules that do not share state); a behaviour of the model instantiates *)
(* one of them (variable unit) and calls its operations in any order with  *)
(* inputs drawn from small sets; the image the caller holds (variable      *)
(* image) is drawn once, in the initial state.                             *)
(*                                                                         *)
(*   "onnx"     rust-core/src/onnx_engine.rs, onnx_registry.rs             *)
(*   "registry" rust-core/src/model_registry.rs, style_transfer.rs,        *)
(*              webgpu_backend.rs                                          *)
(*   "stylizer" crates/stylizer/src/lib.rs                                 *)
(*   "srclib"   src/lib.rs                                                 *)
(*   "engine"   rust-core/src/engine.rs, models/mod.rs, gpu/mod.rs         *)
(***************************************************************************)
EXTENDS Integers, Sequences, FiniteSets, TLC

(***************************************************************************)
(* Bounds of the model.                                                    *)
(***************************************************************************)
\* Calls name the first NumCallStyles registered styles and one unknown name.
NumCallStyles == 2
\* Image buffers passed to a pipeline run hold 0..MaxImgLen bytes.
MaxImgLen == 8
\* Widths and heights passed to a pipeline run are 0..MaxDim.
MaxDim == 2
\* Payload lengths are taken up to MaxSlack bytes around the lengths the
\* validators and the loader distinguish.
MaxSlack == 2
\* Buffers passed to the blend functions hold 0..MaxPixels whole pixels,
\* followed by nothing or by a part of a pixel.
MaxPixels == 2
\* The stylizer's load_model calls that can be in flight together.
MaxCalls == 1
\* The StyleTransfer instances of src/lib.rs alive in one page.
MaxInstances == 2
\* The ArrayBuffers src/lib.rs creates in one behaviour.
MaxBufs == 3

(***************************************************************************)
(* Program constants.                                                      *)
(***************************************************************************)
\* validate_onnx_model: payloads under this length are rejected.
MinModelLen == 100
\* validate_onnx_model: the "simplified validation" length.
SimplifiedMinLen == 1000
\* Side of the model tensor (input_shape [1,3,256,256], postprocess_tensor).
TensorSide == 256

VARIABLES
    unit,               \* the engine this behaviour instantiates
    image,              \* the image the caller passes to the pipeline
    hasher,             \* the order in which this instance's HashMaps yield
                        \* their keys when iterated
    codec,              \* the arguments of the pure functions (blend, resize,
                        \* encode, decode, validation) and their last result
    last,               \* the most recently returned call and what it did
    succeeded,          \* names for which a load call has returned success
    refetched,          \* a load begun after a successful load of the same
                        \* name has called the byte-fetch collaborator
    onnx_models,        \* ONNXStyleTransferEngine.models
    onnx_loaded_models, \* ONNXStyleTransferEngine.loaded_models
    reg_models,         \* ModelRegistry.models
    reg_model_cache,    \* ModelRegistry.model_cache
    webgpu_backend,     \* style_transfer::StyleTransferEngine.webgpu_backend
    st_session,         \* style_transfer::StyleTransferEngine.session
    st_current_model,   \* style_transfer::StyleTransferEngine.current_model
    sty_STATE,          \* stylizer: the thread-local OnceCell<State>
    sty_calls,          \* stylizer: the load_model calls in flight
    LOADED_MODELS,      \* src/lib.rs: the global map, name -> ArrayBuffer
    nextBuf,            \* src/lib.rs: the next ArrayBuffer to be created
    src_inst,           \* src/lib.rs: the StyleTransfer instances
    eng_gpu_context,    \* engine::StyleTransferEngine.gpu_context is Some
    eng_models,         \* engine::StyleTransferEngine.models
    eng_initialized     \* engine::StyleTransferEngine.initialized

onnxVars == <<onnx_models, onnx_loaded_models>>

regVars == <<reg_models, reg_model_cache, webgpu_backend, st_session, st_current_model>>

styVars == <<sty_STATE, sty_calls>>

srcVars == <<LOADED_MODELS, nextBuf, src_inst>>

engVars == <<eng_gpu_context, eng_models, eng_initialized>>

engineVars == <<last, succeeded, refetched, onnxVars, regVars, styVars, srcVars, engVars>>

vars == <<unit, image, hasher, codec, last, succeeded, refetched, onnxVars, regVars, styVars, srcVars, engVars>>

Units == {"onnx", "registry", "stylizer", "srclib", "engine"}

(***************************************************************************)
(* Maps (HashMap): functions whose domain is the set of keys present.      *)
(***************************************************************************)
EmptyMap == [k \in {} |-> FALSE]

MapHas(m, k) == k \in DOMAIN m

MapInsert(m, k, v) == [x \in (DOMAIN m) \cup {k} |-> IF x = k THEN v ELSE m[x]]

MapGetOr(m, k, d) == IF k \in DOMAIN m THEN m[k] ELSE d

Min(a, b) == IF a <= b THEN a ELSE b

(***************************************************************************)
(* Payloads the byte-fetch collaborator can deliver.  A payload is known   *)
(* by its length, by whether its first four bytes are "ONNX", and by       *)
(* whether an inference runtime accepts it as a model.                     *)
(***************************************************************************)
ErrorPage == [len |-> 50, magic |-> FALSE, runtimeOk |-> FALSE]

Truncated == [len |-> 500, magic |-> TRUE, runtimeOk |-> FALSE]

Placeholder == [len |-> 1024, magic |-> FALSE, runtimeOk |-> FALSE]

RealModel == [len |-> 2000, magic |-> FALSE, runtimeOk |-> TRUE]

Payloads == {ErrorPage, Truncated, Placeholder, RealModel}

\* What window.fetch does for one request: the promise rejects, or it
\* resolves to a response with a status (ok or not) and a body.
FetchReject == [net |-> "reject", ok |-> FALSE, body |-> ErrorPage]

FetchOutcomes ==
    {FetchReject}
        \cup {[net |-> "response", ok |-> TRUE, body |-> p] : p \in Payloads}
        \cup {[net |-> "response", ok |-> FALSE, body |-> ErrorPage]}

(***************************************************************************)
(* The record of a returned call.                                          *)
(***************************************************************************)
NoCall ==
    [op |-> "none", name |-> "", res |-> "none",
     known |-> FALSE,        \* the registry had a descriptor for name
     wasLoaded |-> FALSE,    \* the cache held a handle for name at the call
     fetched |-> FALSE,      \* the call invoked the byte-fetch collaborator
     resp |-> FetchReject,   \* what the byte-fetch collaborator answered, if invoked
     cacheChanged |-> FALSE, \* the call changed the model cache
     flag |-> FALSE,         \* a boolean return value
     imgLen |-> 0, w |-> 0, h |-> 0, outLen |-> 0,
     \* style_transfer::load_model: the collaborators' answers and the
     \* backend the session was built on
     gpuOk |-> FALSE, deviceHeld |-> FALSE, backend |-> "none",
     dataOk |-> FALSE, modelOk |-> FALSE, runtime |-> "ok",
     \* engine::transfer_style: the callback's behaviour and the values it
     \* was invoked with
     cb |-> 0, progress |-> <<>>,
     \* the names a listing returned, in the order returned
     listed |-> <<>>]

(***************************************************************************)
(* onnx_engine.rs: ONNXStyleTransferEngine                                 *)
(***************************************************************************)
OnnxStyleOrder == <<"van-gogh", "picasso", "cyberpunk", "watercolor", "oil-painting">>

\* initialize_model_registry: the keys of model_metadata.
OnnxModelMetadata == {OnnxStyleOrder[i] : i \in 1..Len(OnnxStyleOrder)}

UnknownStyle == "nonexistent-style"

OnnxCallNames == {OnnxStyleOrder[i] : i \in 1..NumCallStyles} \cup {UnknownStyle}

\* validate_onnx_model
OnnxValidateModel(model_data) ==
    IF model_data.len < MinModelLen
    THEN FALSE
    ELSE model_data.len > SimplifiedMinLen

\* download_model: Err on a rejected fetch or a non-ok status.
OnnxDownloadModel(resp) ==
    IF resp.net = "reject" THEN [ok |-> FALSE, data |-> resp.body]
    ELSE IF ~resp.ok THEN [ok |-> FALSE, data |-> resp.body]
    ELSE [ok |-> TRUE, data |-> resp.body]

\* A lookup that finds a descriptor for every name.
C4_Mutant_HasMetadata(style_name) == TRUE

\* load_model, line 141: the descriptor lookup.
OnnxHasMetadata(style_name) == style_name \in OnnxModelMetadata

\* A flag lookup that finds every model loaded.
C6_Mutant_IsLoaded(loaded, style_name) == TRUE

\* load_model, line 145 and apply_style_transfer, line 212.
OnnxIsLoaded(loaded, style_name) == MapGetOr(loaded, style_name, FALSE)

\* A load that marks the name loaded and stores no payload.
C26_Mutant_LoadModelStep(models, loaded, style_name, resp) ==
    [res |-> "Ok", fetched |-> FALSE, models |-> models,
     loaded |-> MapInsert(loaded, style_name, TRUE)]

\* load_model: the result, whether it fetched, and the maps it leaves.
OnnxLoadModelStep(models, loaded, style_name, resp) ==
    IF ~OnnxHasMetadata(style_name)
    THEN [res |-> "StyleNotFound", fetched |-> FALSE,
          models |-> models, loaded |-> loaded]
    ELSE IF OnnxIsLoaded(loaded, style_name)
    THEN [res |-> "Ok", fetched |-> FALSE, models |-> models, loaded |-> loaded]
    ELSE LET dl == OnnxDownloadModel(resp) IN
         IF ~dl.ok
         THEN [res |-> "DownloadFailed", fetched |-> TRUE,
               models |-> models, loaded |-> loaded]
         ELSE IF ~OnnxValidateModel(dl.data)
         THEN [res |-> "InvalidModelFormat", fetched |-> TRUE,
               models |-> models, loaded |-> loaded]
         ELSE [res |-> "Ok", fetched |-> TRUE,
               models |-> MapInsert(models, style_name, dl.data),
               loaded |-> MapInsert(loaded, style_name, TRUE)]

\* A call of load_model.  The method takes &mut self: the engine stays
\* borrowed until the future completes, so no other call of the same engine
\* runs between the download and the store.
OnnxLoadModel(style_name, resp) ==
    /\ unit = "onnx"
    /\ LET r == OnnxLoadModelStep(onnx_models, onnx_loaded_models, style_name, resp) IN
       /\ onnx_models' = r.models
       /\ onnx_loaded_models' = r.loaded
       /\ refetched' = (refetched \/ (r.fetched /\ style_name \in succeeded))
       /\ succeeded' = IF r.res = "Ok" THEN succeeded \cup {style_name} ELSE succeeded
       /\ last' = [NoCall EXCEPT
                     !.op = "load", !.name = style_name, !.res = r.res,
                     !.known = style_name \in OnnxModelMetadata,
                     !.wasLoaded = MapHas(onnx_models, style_name),
                     !.fetched = r.fetched,
                     !.resp = IF r.fetched THEN resp ELSE FetchReject,
                     !.cacheChanged = (r.models # onnx_models \/ r.loaded # onnx_loaded_models)]
    /\ UNCHANGED <<unit, image, hasher, codec, regVars, styVars, srcVars, engVars>>

(***************************************************************************)
(* Buffer lengths of the pipeline of apply_style_transfer.  The pixel      *)
(* values go through floating-point kernels; the lengths of the buffers    *)
(* are computed here as the code computes them.                            *)
(***************************************************************************)
\* Length of the i-th chunk (from 1) of slice.chunks(k) on n elements.
ChunkLen(n, k, i) == IF i * k <= n THEN k ELSE n - (i - 1) * k

NumChunks(n, k) == (n + k - 1) \div k

\* preprocess_image, lines 251-258: three floats per chunk of at least 3 bytes.
OnnxRgbLen(imgLen) ==
    3 * Cardinality({i \in 1..NumChunks(imgLen, 4) : ChunkLen(imgLen, 4, i) >= 3})

\* resize_image_data, line 284: the result vector.
OnnxResizeLen(dst_w, dst_h) == dst_w * dst_h * 3

\* preprocess_image, line 264: the tensor.
OnnxPreprocessLen(imgLen, w, h) == TensorSide * TensorSide * 3

\* postprocess_tensor, lines 400-411: four bytes per chunk of three floats.
OnnxPostprocessLen(target_width, target_height) ==
    LET n == OnnxResizeLen(target_width, target_height) IN
    4 * Cardinality({i \in 1..NumChunks(n, 3) : ChunkLen(n, 3, i) >= 3})

\* blend_with_original, lines 419-427: four bytes per zipped pair of full chunks.
OnnxBlendLen(origLen, styLen) ==
    LET pairs == Min(NumChunks(origLen, 4), NumChunks(styLen, 4)) IN
    4 * Cardinality({i \in 1..pairs :
                        ChunkLen(origLen, 4, i) >= 4 /\ ChunkLen(styLen, 4, i) >= 4})

\* apply_style_transfer: the result and the length of output_data.
OnnxApplyStep(loaded, imgLen, width, height, style_name) ==
    IF ~OnnxIsLoaded(loaded, style_name)
    THEN [res |-> "ModelNotLoaded", outLen |-> 0]
    ELSE LET output_image == OnnxPostprocessLen(width, height) IN
         [res |-> "Ok", outLen |-> OnnxBlendLen(imgLen, output_image)]

ImgLens == 0..MaxImgLen

Dims == 0..MaxDim

OnnxApplyStyleTransfer(style_name) ==
    /\ unit = "onnx"
    /\ LET r == OnnxApplyStep(onnx_loaded_models, image.len, image.w, image.h, style_name) IN
       last' = [NoCall EXCEPT
                  !.op = "run", !.name = style_name, !.res = r.res,
                  !.known = style_name \in OnnxModelMetadata,
                  !.wasLoaded = MapHas(onnx_models, style_name),
                  !.imgLen = image.len, !.w = image.w, !.h = image.h,
                  !.outLen = r.outLen]
    /\ UNCHANGED <<unit, image, hasher, codec, succeeded, refetched, onnxVars, regVars, styVars, srcVars, engVars>>

(***************************************************************************)
(* onnx_registry.rs: ONNXModelRegistry, a wrapper of the engine.  Its      *)
(* load_model and apply_style_transfer are the engine's.                   *)
(***************************************************************************)
\* is_model_loaded, lines 56-59.
OnnxRegistryIsLoaded(style_name) == TRUE

OnnxRegistryIsModelLoaded(style_name) ==
    /\ unit = "onnx"
    /\ last' = [NoCall EXCEPT
                  !.op = "is_loaded", !.name = style_name, !.res = "Ok",
                  !.known = style_name \in OnnxModelMetadata,
                  !.wasLoaded = MapHas(onnx_models, style_name),
                  !.flag = OnnxRegistryIsLoaded(style_name)]
    /\ UNCHANGED <<unit, image, hasher, codec, succeeded, refetched, onnxVars, regVars, styVars, srcVars, engVars>>

(***************************************************************************)
(* model_registry.rs: ModelRegistry                                        *)
(***************************************************************************)
InfoVanGogh == [name |-> "van-gogh", file_name |-> "van_gogh.onnx"]

InfoPicasso == [name |-> "picasso", file_name |-> "picasso.onnx"]

InfoVanGoghV2 == [name |-> "van-gogh", file_name |-> "van_gogh_v2.onnx"]

\* What the fetch of ./models/model-registry.json can give.
ManifestOutcomes ==
    {[kind |-> "reject", models |-> <<>>],
     [kind |-> "badjson", models |-> <<>>],
     [kind |-> "ok", models |-> <<InfoVanGogh, InfoPicasso>>],
     [kind |-> "ok", models |-> <<InfoVanGoghV2>>]}

RegCallNames == OnnxCallNames

\* What the fetch of a model file can give get_model_data.
RegFetchOutcomes ==
    {FetchReject,
     [net |-> "response", ok |-> TRUE, body |-> RealModel],
     [net |-> "response", ok |-> FALSE, body |-> ErrorPage]}

\* load_registry, lines 53-55: insert every record, in order.
RECURSIVE RegInsertAll(_, _)
RegInsertAll(models, records) ==
    IF records = <<>> THEN models
    ELSE RegInsertAll(MapInsert(models, Head(records).name, Head(records)),
                      Tail(records))

\* load_registry
RegLoadRegistryStep(models, manifest) ==
    IF manifest.kind = "reject" THEN [res |-> "DownloadFailed", models |-> models]
    ELSE IF manifest.kind = "badjson" THEN [res |-> "ParseFailed", models |-> models]
    ELSE [res |-> "Ok", models |-> RegInsertAll(models, manifest.models)]

\* get_model_data, lines 69-71: the cache lookup.
RegCached(cache, style_name) == MapHas(cache, style_name)

\* get_model_data: the response status is not looked at and the body is
\* stored as it came.
RegGetModelDataStep(models, cache, style_name, resp) ==
    IF RegCached(cache, style_name)
    THEN [res |-> "Ok", fetched |-> FALSE, cache |-> cache, data |-> cache[style_name]]
    ELSE IF ~MapHas(models, style_name)
    THEN [res |-> "StyleNotFound", fetched |-> FALSE, cache |-> cache, data |-> ErrorPage]
    ELSE IF resp.net = "reject"
    THEN [res |-> "DownloadFailed", fetched |-> TRUE, cache |-> cache, data |-> ErrorPage]
    ELSE [res |-> "Ok", fetched |-> TRUE,
          cache |-> MapInsert(cache, style_name, resp.body), data |-> resp.body]

(***************************************************************************)
(* webgpu_backend.rs: WebGPUBackend                                        *)
(***************************************************************************)
WebGpuNew == [device |-> FALSE, adapter |-> FALSE]

\* initialize: adapter and device are set together, on success only.
WebGpuInitialize(backend, gpuOk) ==
    IF gpuOk
    THEN [ok |-> TRUE, backend |-> [device |-> TRUE, adapter |-> TRUE]]
    ELSE [ok |-> FALSE, backend |-> backend]

WebGpuIsInitialized(backend) == backend.device /\ backend.adapter

(***************************************************************************)
(* style_transfer.rs: StyleTransferEngine                                  *)
(***************************************************************************)
NoSession == [some |-> FALSE, data |-> ErrorPage, backend |-> "none"]

NoModel == [some |-> FALSE, info |-> InfoVanGogh]

\* load_model, lines 30-32: a failed WebGPU initialization is logged and the
\* load goes on.
StGpuStep(backend, gpuOk) ==
    LET r == WebGpuInitialize(backend, gpuOk) IN
    [fatal |-> FALSE, backend |-> r.backend]

\* The first step of the inference runtime that fails when it is reached:
\* building the environment, the session builder, or setting the WebGPU
\* execution provider ("ok": none of them).
RuntimeOutcomes == {"ok", "env", "builder", "provider"}

\* A load that records the descriptor of a registered style and then fails,
\* before any session is built.
C27_Mutant_LoadModelStep(models, cache, webgpu, session, current, style_name, gpuOk, resp, runtime) ==
    [res |-> "ModelLoadFailed", fetched |-> FALSE, cache |-> cache,
     webgpu |-> webgpu, session |-> session,
     current |-> [some |-> MapHas(models, style_name), info |-> InfoVanGogh],
     backend |-> "none", dataOk |-> FALSE, modelOk |-> FALSE]

\* load_model
StLoadModelStep(models, cache, webgpu, session, current, style_name, gpuOk, resp, runtime) ==
    LET same == [res |-> "StyleNotFound", fetched |-> FALSE, cache |-> cache,
                 webgpu |-> webgpu, session |-> session, current |-> current,
                 backend |-> "none", dataOk |-> FALSE, modelOk |-> FALSE]
    IN
    IF ~MapHas(models, style_name) THEN same
    ELSE
    LET gpu == StGpuStep(webgpu, gpuOk)
        d == RegGetModelDataStep(models, cache, style_name, resp)
        after == [same EXCEPT !.webgpu = gpu.backend, !.fetched = d.fetched,
                              !.cache = d.cache, !.dataOk = (d.res = "Ok"),
                              !.modelOk = (d.res = "Ok" /\ d.data.runtimeOk)]
        backend == IF WebGpuIsInitialized(gpu.backend) THEN "webgpu" ELSE "cpu"
    IN
    IF gpu.fatal THEN [same EXCEPT !.res = "BackendUnavailable", !.webgpu = gpu.backend]
    ELSE IF d.res # "Ok" THEN [after EXCEPT !.res = d.res]
    ELSE IF runtime = "env" THEN [after EXCEPT !.res = "EnvironmentFailed"]
    ELSE IF runtime = "builder" THEN [after EXCEPT !.res = "SessionBuilderFailed"]
    ELSE IF backend = "webgpu" /\ runtime = "provider"
    THEN [after EXCEPT !.res = "ProviderFailed", !.backend = backend]
    ELSE IF ~d.data.runtimeOk
    THEN [after EXCEPT !.res = "ModelLoadFailed", !.backend = backend]
    ELSE [after EXCEPT !.res = "Ok", !.backend = backend,
                       !.session = [some |-> TRUE, data |-> d.data, backend |-> backend],
                       !.current = [some |-> TRUE, info |-> models[style_name]]]

RegLoadRegistry(manifest) ==
    /\ unit = "registry"
    /\ LET r == RegLoadRegistryStep(reg_models, manifest) IN
       /\ reg_models' = r.models
       /\ last' = [NoCall EXCEPT !.op = "load_registry", !.res = r.res]
    /\ UNCHANGED <<unit, image, hasher, codec, succeeded, refetched, reg_model_cache, webgpu_backend,
                   st_session, st_current_model, onnxVars, styVars, srcVars, engVars>>

RegGetModelData(style_name, resp) ==
    /\ unit = "registry"
    /\ LET r == RegGetModelDataStep(reg_models, reg_model_cache, style_name, resp) IN
       /\ reg_model_cache' = r.cache
       /\ refetched' = (refetched \/ (r.fetched /\ style_name \in succeeded))
       /\ succeeded' = IF r.res = "Ok" THEN succeeded \cup {style_name} ELSE succeeded
       /\ last' = [NoCall EXCEPT
                     !.op = "load", !.name = style_name, !.res = r.res,
                     !.known = MapHas(reg_models, style_name),
                     !.wasLoaded = MapHas(reg_model_cache, style_name),
                     !.fetched = r.fetched,
                     !.resp = IF r.fetched THEN resp ELSE FetchReject,
                     !.cacheChanged = (r.cache # reg_model_cache)]
    /\ UNCHANGED <<unit, image, hasher, codec, reg_models, webgpu_backend, st_session, st_current_model,
                   onnxVars, styVars, srcVars, engVars>>

StLoadModel(style_name, gpuOk, resp, runtime) ==
    /\ unit = "registry"
    /\ LET r == StLoadModelStep(reg_models, reg_model_cache, webgpu_backend,
                                st_session, st_current_model, style_name,
                                gpuOk, resp, runtime) IN
       /\ reg_model_cache' = r.cache
       /\ webgpu_backend' = r.webgpu
       /\ st_session' = r.session
       /\ st_current_model' = r.current
       /\ refetched' = (refetched \/ (r.fetched /\ style_name \in succeeded))
       /\ succeeded' = IF r.res = "Ok" THEN succeeded \cup {style_name} ELSE succeeded
       /\ last' = [NoCall EXCEPT
                     !.op = "st_load", !.name = style_name, !.res = r.res,
                     !.known = MapHas(reg_models, style_name),
                     !.wasLoaded = MapHas(reg_model_cache, style_name),
                     !.fetched = r.fetched,
                     !.resp = IF r.fetched THEN resp ELSE FetchReject,
                     !.cacheChanged = (r.cache # reg_model_cache),
                     !.gpuOk = gpuOk,
                     !.deviceHeld = WebGpuIsInitialized(webgpu_backend),
                     !.backend = r.backend,
                     !.dataOk = r.dataOk, !.modelOk = r.modelOk,
                     !.runtime = runtime]
    /\ UNCHANGED <<unit, image, hasher, codec, reg_models, onnxVars, styVars, srcVars, engVars>>

\* What session.run and the extraction of its output give stylize_image: an
\* error, outputs without the named tensor, a tensor that is not 1 x 3 x n
\* x n, or the tensor expected.
StInferOutcomes == {"fail", "missing", "shape", "ok"}

\* stylize_image: the result, the name of the model whose descriptor and
\* session it used, and the length of the returned buffer.  preprocess_image
\* pads and does not fail; postprocess_image returns width * height * 4
\* bytes; blend_images wants the two lengths equal.
StStylizeStep(session, current, imgLen, width, height, infer) ==
    IF ~session.some THEN [res |-> "NoModelLoaded", name |-> "", outLen |-> 0]
    ELSE IF ~current.some THEN [res |-> "NoModelInfo", name |-> "", outLen |-> 0]
    ELSE LET used == [res |-> "Ok", name |-> current.info.name, outLen |-> 0] IN
         IF infer = "fail" THEN [used EXCEPT !.res = "InferenceFailed"]
         ELSE IF infer = "missing" THEN [used EXCEPT !.res = "OutputMissing"]
         ELSE IF infer = "shape" THEN [used EXCEPT !.res = "InvalidShape"]
         ELSE IF imgLen # width * height * 4 THEN [used EXCEPT !.res = "SizeMismatch"]
         ELSE [used EXCEPT !.outLen = 4 * (imgLen \div 4)]

\* A call of stylize_image on an image of imgLen bytes said to be one pixel.
StStylizeImage(imgLen, infer) ==
    /\ unit = "registry"
    /\ LET r == StStylizeStep(st_session, st_current_model, imgLen, 1, 1, infer) IN
       last' = [NoCall EXCEPT !.op = "stylize", !.name = r.name, !.res = r.res,
                              !.imgLen = imgLen, !.w = 1, !.h = 1, !.outLen = r.outLen]
    /\ UNCHANGED <<unit, image, hasher, codec, succeeded, refetched, onnxVars, regVars, styVars, srcVars, engVars>>

(***************************************************************************)
(* crates/stylizer/src/lib.rs                                              *)
(***************************************************************************)
MetaA == [model_url |-> "a.onnx", input_width |-> 2, input_height |-> 2]

MetaB == [model_url |-> "b.onnx", input_width |-> 1, input_height |-> 2]

\* The meta_json arguments of load_model: parsed is FALSE for text that
\* serde_json rejects.
MetaJsons ==
    {[parsed |-> FALSE, meta |-> MetaA],
     [parsed |-> TRUE, meta |-> MetaA],
     [parsed |-> TRUE, meta |-> MetaB]}

StateUnset == [some |-> FALSE, meta |-> MetaA, session |-> ErrorPage]

IdleCall == [pc |-> "idle", meta |-> MetaA, bytes |-> ErrorPage]

Slots == 1..MaxCalls

\* OnceCell::set, lines 88-91: the first value stays, a later one is dropped.
OnceCellSet(cell, value) == IF cell.some THEN cell ELSE value

\* fetch_bytes: the status of the response is not looked at.
StylizerFetchBytes(resp) ==
    IF resp.net = "reject" THEN [ok |-> FALSE, bytes |-> resp.body]
    ELSE [ok |-> TRUE, bytes |-> resp.body]

\* load_model, lines 76-81: parse the meta and call fetch_bytes.
StylizerLoadModel(slot, meta_json) ==
    /\ unit = "stylizer"
    /\ sty_calls[slot].pc = "idle"
    /\ IF ~meta_json.parsed
       THEN /\ last' = [NoCall EXCEPT !.op = "load", !.res = "BadMeta", !.known = TRUE,
                                      !.wasLoaded = sty_STATE.some]
            /\ UNCHANGED <<sty_calls, refetched>>
       ELSE /\ sty_calls' = [sty_calls EXCEPT ![slot] =
                               [pc |-> "fetching", meta |-> meta_json.meta,
                                bytes |-> ErrorPage]]
            /\ refetched' = (refetched \/ meta_json.meta.model_url \in succeeded)
            /\ UNCHANGED last
    /\ UNCHANGED <<unit, image, hasher, codec, succeeded, sty_STATE, onnxVars, regVars, srcVars, engVars>>

\* load_model, lines 81-86: fetch_bytes completes; Session::from_bytes starts.
StylizerFetchDone(slot, resp) ==
    /\ unit = "stylizer"
    /\ sty_calls[slot].pc = "fetching"
    /\ LET f == StylizerFetchBytes(resp)
           call == sty_calls[slot] IN
       IF ~f.ok
       THEN /\ sty_calls' = [sty_calls EXCEPT ![slot] = IdleCall]
            /\ last' = [NoCall EXCEPT !.op = "load", !.name = call.meta.model_url,
                                      !.res = "DownloadFailed", !.known = TRUE,
                                      !.wasLoaded = sty_STATE.some, !.fetched = TRUE]
       ELSE /\ sty_calls' = [sty_calls EXCEPT ![slot] =
                               [call EXCEPT !.pc = "building", !.bytes = f.bytes]]
            /\ UNCHANGED last
    /\ UNCHANGED <<unit, image, hasher, codec, succeeded, refetched, sty_STATE, onnxVars, regVars, srcVars, engVars>>

\* load_model, lines 84-93: Session::from_bytes completes (gpu: whether the
\* runtime obtained its device); the state is set and the call returns.
StylizerSessionDone(slot, gpu) ==
    /\ unit = "stylizer"
    /\ sty_calls[slot].pc = "building"
    /\ LET call == sty_calls[slot]
           ok == gpu /\ call.bytes.runtimeOk
           st == [some |-> TRUE, meta |-> call.meta, session |-> call.bytes] IN
       /\ sty_STATE' = IF ok THEN OnceCellSet(sty_STATE, st) ELSE sty_STATE
       /\ succeeded' = IF ok THEN succeeded \cup {call.meta.model_url} ELSE succeeded
       /\ last' = [NoCall EXCEPT !.op = "load", !.name = call.meta.model_url,
                                 !.res = IF ok THEN "Ok" ELSE "SessionFailed",
                                 !.known = TRUE, !.wasLoaded = sty_STATE.some,
                                 !.fetched = TRUE,
                                 !.cacheChanged = (sty_STATE' # sty_STATE)]
    /\ sty_calls' = [sty_calls EXCEPT ![slot] = IdleCall]
    /\ UNCHANGED <<unit, image, hasher, codec, refetched, onnxVars, regVars, srcVars, engVars>>

\* bilinear_resize_rgba on a source of srcLen bytes, for sw, sh, dw, dh >= 1:
\* the greatest source index read (-1: none) and the length of the result.
BilinearResizeLen(srcLen, sw, sh, dw, dh) ==
    IF sw = dw /\ sh = dh
    THEN [maxRead |-> -1, len |-> srcLen]
    ELSE LET y_l(y) == (y * (sh - 1)) \div dh
             x_l(x) == (x * (sw - 1)) \div dw
             y_h(y) == Min(y_l(y) + 1, sh - 1)
             x_h(x) == Min(x_l(x) + 1, sw - 1)
             y_top == y_h(dh - 1)
             x_top == x_h(dw - 1)
         IN [maxRead |-> (y_top * sw + x_top) * 4 + 3, len |-> dw * dh * 4]

\* What session.run gives: an error, outputs without the named tensor, or
\* the named tensor with short or full length.
InferOutcomes == {"fail", "missing", "short", "ok"}

\* run_style: the result and the length of the returned buffer.
StylizerRunStep(state, imgLen, in_width, in_height, infer) ==
    IF ~state.some THEN [res |-> "ModelNotLoaded", outLen |-> 0]
    ELSE LET dw == state.meta.input_width
             dh == state.meta.input_height
             resized == BilinearResizeLen(imgLen, in_width, in_height, dw, dh)
         IN
         IF resized.maxRead >= imgLen THEN [res |-> "Panic", outLen |-> 0]
         \* nchw_from_rgba reads rgba[i + 2] of every pixel
         ELSE IF (dw * dh - 1) * 4 + 2 >= resized.len THEN [res |-> "Panic", outLen |-> 0]
         ELSE IF infer = "fail" THEN [res |-> "InferenceFailed", outLen |-> 0]
         ELSE IF infer = "missing" THEN [res |-> "OutputMissing", outLen |-> 0]
         \* rgba_from_nchw reads data[plane * 2 + idx]
         ELSE IF infer = "short" THEN [res |-> "Panic", outLen |-> 0]
         ELSE [res |-> "Ok", outLen |-> dw * dh * 4]

StyDims == 1..MaxDim

StylizerRunStyle(infer) ==
    /\ unit = "stylizer"
    /\ LET r == StylizerRunStep(sty_STATE, image.len, image.w, image.h, infer) IN
       last' = [NoCall EXCEPT !.op = "run", !.res = r.res, !.known = TRUE,
                              !.wasLoaded = sty_STATE.some,
                              !.imgLen = image.len, !.w = image.w, !.h = image.h,
                              !.outLen = r.outLen]
    /\ UNCHANGED <<unit, image, hasher, codec, succeeded, refetched, sty_STATE, sty_calls, onnxVars, regVars, srcVars, engVars>>

(***************************************************************************)
(* src/lib.rs: StyleTransfer instances over the global LOADED_MODELS       *)
(***************************************************************************)
SrcStyleOrder ==
    <<"Van Gogh - Starry Night", "Picasso - Cubist", "Japanese Ukiyo-e",
      "Cyberpunk Neon", "Abstract Expressionism">>

\* get_models: the names of self.models.
SrcModels == {SrcStyleOrder[i] : i \in 1..Len(SrcStyleOrder)}

SrcCallNames == {SrcStyleOrder[i] : i \in 1..NumCallStyles} \cup {UnknownStyle}

Instances == 1..MaxInstances

\* StyleTransfer::new; pc and name are the position of load_style_model.
NewInstance == [current_style |-> "", pc |-> "idle", name |-> ""]

\* self.models.iter().find(|m| m.name == style_name)
SrcFind(style_name) == style_name \in SrcModels

\* loaded.contains_key(&model.name)
SrcContainsKey(loaded, name) == MapHas(loaded, name)

SrcPending == Cardinality({i \in Instances : src_inst[i].pc = "awaiting"})

\* load_style_model up to its await (lines 133-150).
SrcLoadStyleModel(i, style_name) ==
    /\ unit = "srclib"
    /\ src_inst[i].pc = "idle"
    /\ IF ~SrcFind(style_name)
       THEN /\ last' = [NoCall EXCEPT !.op = "load", !.name = style_name,
                                      !.res = "StyleNotFound"]
            /\ UNCHANGED src_inst
       ELSE IF SrcContainsKey(LOADED_MODELS, style_name)
       THEN /\ src_inst' = [src_inst EXCEPT ![i].current_style = style_name]
            /\ last' = [NoCall EXCEPT !.op = "load", !.name = style_name,
                                      !.res = "Ok", !.known = TRUE, !.wasLoaded = TRUE]
       ELSE /\ nextBuf + SrcPending <= MaxBufs
            /\ src_inst' = [src_inst EXCEPT ![i].pc = "awaiting", ![i].name = style_name]
            /\ UNCHANGED last
    /\ UNCHANGED <<unit, image, hasher, codec, succeeded, refetched, LOADED_MODELS, nextBuf,
                   onnxVars, regVars, styVars, engVars>>

\* load_style_model after its await (lines 152-161): a new ArrayBuffer is
\* inserted under the name.
SrcLoadResume(i) ==
    /\ unit = "srclib"
    /\ src_inst[i].pc = "awaiting"
    /\ LET name == src_inst[i].name IN
       /\ LOADED_MODELS' = MapInsert(LOADED_MODELS, name, nextBuf)
       /\ nextBuf' = nextBuf + 1
       /\ src_inst' = [src_inst EXCEPT ![i] =
                         [current_style |-> name, pc |-> "idle", name |-> ""]]
       /\ succeeded' = succeeded \cup {name}
       /\ last' = [NoCall EXCEPT !.op = "load", !.name = name, !.res = "Ok",
                                 !.known = TRUE,
                                 !.wasLoaded = SrcContainsKey(LOADED_MODELS, name),
                                 !.cacheChanged = TRUE]
    /\ UNCHANGED <<unit, image, hasher, codec, refetched, onnxVars, regVars, styVars, engVars>>

\* process_image with apply_style_transform.
SrcProcessStep(inst, loaded, imgLen, width) ==
    IF inst.current_style = "" THEN [res |-> "NoStyleLoaded", outLen |-> 0]
    ELSE IF ~SrcFind(inst.current_style) THEN [res |-> "StyleNotFound", outLen |-> 0]
    ELSE IF ~SrcContainsKey(loaded, inst.current_style)
    THEN [res |-> "ModelNotLoaded", outLen |-> 0]
    \* pixel_index as u32 / width, for the first whole pixel
    ELSE IF imgLen >= 4 /\ width = 0 THEN [res |-> "Panic", outLen |-> 0]
    ELSE [res |-> "Ok", outLen |-> imgLen]

SrcProcessImage(i) ==
    /\ unit = "srclib"
    /\ src_inst[i].pc = "idle"
    /\ LET r == SrcProcessStep(src_inst[i], LOADED_MODELS, image.len, image.w) IN
       last' = [NoCall EXCEPT !.op = "run", !.name = src_inst[i].current_style,
                              !.res = r.res,
                              !.known = SrcFind(src_inst[i].current_style),
                              !.wasLoaded = MapHas(LOADED_MODELS, src_inst[i].current_style),
                              !.imgLen = image.len, !.w = image.w, !.h = image.h,
                              !.outLen = r.outLen]
    /\ UNCHANGED <<unit, image, hasher, codec, succeeded, refetched, srcVars, onnxVars, regVars, styVars, engVars>>

(***************************************************************************)
(* engine.rs: StyleTransferEngine, with models/mod.rs StyleModel::load     *)
(***************************************************************************)
EngCallNames == OnnxCallNames

\* StyleModel::load: the model built for a style name.
StyleModelLoad(style_name) ==
    IF style_name \in {"van-gogh", "picasso", "cyberpunk", "watercolor", "oil-painting"}
    THEN [ok |-> TRUE, model |-> style_name]
    ELSE [ok |-> FALSE, model |-> ""]

\* Milestones whose last value repeats the one before.
C8_Mutant_Milestones == <<20, 50, 50>>

\* The values transfer_style passes to progress_callback, in order.
ProgressMilestones == <<20, 50, 100>>

\* What a progress callback does: 0 returns from every invocation, k > 0
\* throws from its k-th invocation.
CallbackBehaviours == 0..Len(ProgressMilestones)

\* initialize: GpuContext::new never fails.
EngInitialize ==
    /\ unit = "engine"
    /\ eng_gpu_context' = TRUE
    /\ eng_initialized' = TRUE
    /\ last' = [NoCall EXCEPT !.op = "initialize", !.res = "Ok"]
    /\ UNCHANGED <<unit, image, hasher, codec, succeeded, refetched, eng_models,
                   onnxVars, regVars, styVars, srcVars>>

\* A readiness test that wants the GPU context absent.
C23_Mutant_IsReady(initialized, gpu_context) == initialized /\ ~gpu_context

\* is_ready: self.initialized && self.gpu_context.is_some()
EngIsReady(initialized, gpu_context) == initialized /\ gpu_context

\* A call of is_ready; flag is the value it returns.
EngIsReadyCall ==
    /\ unit = "engine"
    /\ last' = [NoCall EXCEPT !.op = "is_ready", !.res = "Ok",
                              !.flag = EngIsReady(eng_initialized, eng_gpu_context)]
    /\ UNCHANGED <<unit, image, hasher, codec, succeeded, refetched, engVars, onnxVars, regVars, styVars, srcVars>>

\* load_style
EngLoadStyleStep(models, style_name) ==
    LET m == StyleModelLoad(style_name) IN
    IF ~m.ok THEN [res |-> "UnknownStyle", models |-> models]
    ELSE [res |-> "Ok", models |-> MapInsert(models, style_name, m.model)]

EngLoadStyle(style_name) ==
    /\ unit = "engine"
    /\ LET r == EngLoadStyleStep(eng_models, style_name) IN
       /\ eng_models' = r.models
       /\ succeeded' = IF r.res = "Ok" THEN succeeded \cup {style_name} ELSE succeeded
       /\ last' = [NoCall EXCEPT !.op = "load", !.name = style_name, !.res = r.res,
                                 !.known = StyleModelLoad(style_name).ok,
                                 !.wasLoaded = MapHas(eng_models, style_name),
                                 !.cacheChanged = (r.models # eng_models)]
    /\ UNCHANGED <<unit, image, hasher, codec, refetched, eng_gpu_context, eng_initialized,
                   onnxVars, regVars, styVars, srcVars>>

\* transfer_style with a callback of behaviour cb: the result, the values
\* the callback was invoked with, and the length of the returned buffer.
EngTransferStep(initialized, models, imgLen, style_name, cb) ==
    IF ~initialized
    THEN [res |-> "EngineNotInitialized", progress |-> <<>>, outLen |-> 0]
    ELSE IF ~MapHas(models, style_name)
    THEN [res |-> "StyleNotLoaded", progress |-> <<>>, outLen |-> 0]
    ELSE IF cb # 0
    THEN [res |-> "CallbackError", progress |-> SubSeq(ProgressMilestones, 1, cb),
          outLen |-> 0]
    ELSE [res |-> "Ok", progress |-> ProgressMilestones, outLen |-> imgLen]

EngTransferStyle(style_name, cb) ==
    /\ unit = "engine"
    /\ LET r == EngTransferStep(eng_initialized, eng_models, image.len, style_name, cb) IN
       last' = [NoCall EXCEPT !.op = "run", !.name = style_name, !.res = r.res,
                              !.known = StyleModelLoad(style_name).ok,
                              !.wasLoaded = MapHas(eng_models, style_name),
                              !.imgLen = image.len, !.outLen = r.outLen,
                              !.progress = r.progress, !.cb = cb]
    /\ UNCHANGED <<unit, image, hasher, codec, succeeded, refetched, engVars, onnxVars, regVars, styVars, srcVars>>

\* quick_transfer_style: the result and the length of the returned buffer.
\* The style name selects the arm of the match and is not looked up in models.
EngQuickTransferStep(initialized, imgLen, style_name) ==
    IF ~initialized
    THEN [res |-> "EngineNotInitialized", outLen |-> 0]
    ELSE [res |-> "Ok", outLen |-> imgLen]

EngQuickTransferStyle(style_name) ==
    /\ unit = "engine"
    /\ LET r == EngQuickTransferStep(eng_initialized, image.len, style_name) IN
       last' = [NoCall EXCEPT !.op = "quick_run", !.name = style_name, !.res = r.res,
                              !.known = StyleModelLoad(style_name).ok,
                              !.wasLoaded = MapHas(eng_models, style_name),
                              !.imgLen = image.len, !.outLen = r.outLen]
    /\ UNCHANGED <<unit, image, hasher, codec, succeeded, refetched, engVars, onnxVars, regVars, styVars, srcVars>>

(***************************************************************************)
(* Listings of the registries.  A HashMap yields its keys in the order of  *)
(* its hasher and table, which the language leaves unspecified; a Vec      *)
(* yields its elements in the order they were pushed.                      *)
(***************************************************************************)
\* The orders in which a HashMap can yield the names of the styles.
HashOrders ==
    {o \in [1..Len(OnnxStyleOrder) -> OnnxModelMetadata] :
        \A i, j \in 1..Len(OnnxStyleOrder) : o[i] = o[j] => i = j}

\* HashMap::keys / HashMap::values: the keys present, in the order order.
HashIter(keys, order) == SelectSeq(order, LAMBDA k : k \in keys)

\* models.rs initialize_default_models: self.models, a Vec, as pushed.
ModelsStyleOrder == <<"van-gogh", "picasso", "cyberpunk", "watercolor", "oil-painting">>

\* ONNXStyleTransferEngine::get_available_styles: model_metadata.keys()
OnnxGetAvailableStyles ==
    /\ unit = "onnx"
    /\ last' = [NoCall EXCEPT !.op = "list", !.res = "Ok",
                              !.listed = HashIter(OnnxModelMetadata, hasher)]
    /\ UNCHANGED <<unit, image, hasher, codec, succeeded, refetched, onnxVars, regVars, styVars, srcVars, engVars>>

\* ModelRegistry::get_styles: models.values(), named by their name field.
RegGetStyles ==
    /\ unit = "registry"
    /\ LET keys == HashIter(DOMAIN reg_models, hasher) IN
       last' = [NoCall EXCEPT !.op = "list", !.res = "Ok",
                              !.listed = [i \in 1..Len(keys) |-> reg_models[keys[i]].name]]
    /\ UNCHANGED <<unit, image, hasher, codec, succeeded, refetched, onnxVars, regVars, styVars, srcVars, engVars>>

\* models.rs ModelRegistry::get_available_styles: the Vec, serialised.
ModelsGetAvailableStyles ==
    /\ unit = "models"
    /\ last' = [NoCall EXCEPT !.op = "list", !.res = "Ok", !.listed = ModelsStyleOrder]
    /\ UNCHANGED <<unit, image, hasher, codec, succeeded, refetched, onnxVars, regVars, styVars, srcVars, engVars>>

(***************************************************************************)
(* f32 arithmetic.  A finite f32 is [m, e] with value m * 2^e, where m = 0 *)
(* and e = 0, or 2^23 <= |m| < 2^24.  Every operation rounds to nearest,   *)
(* ties to even, as the hardware does.  The sign of zero, infinities, NaN  *)
(* and subnormals are not represented: the inputs drawn keep every value   *)
(* finite and normal.                                                      *)
(***************************************************************************)
Abs(n) == IF n < 0 THEN -n ELSE n

Sign(n) == IF n < 0 THEN -1 ELSE 1

FZero == [m |-> 0, e |-> 0]

\* The number of binary digits of n, 0 < n < 2^30.
BitLen(n) == CHOOSE k \in 1..30 : n < 2^k /\ n >= 2^(k - 1)

\* The f32 nearest to sign * sig * 2^e, 0 <= sig < 2^30; when sig has more
\* than 25 digits its lowest digit may stand for any non-zero remainder.
RoundSig(sign, sig, e) ==
    IF sig = 0 THEN FZero
    ELSE LET k == BitLen(sig) IN
         IF k <= 24 THEN [m |-> sign * sig * 2^(24 - k), e |-> e - (24 - k)]
         ELSE LET shift == k - 24
                  q == sig \div 2^shift
                  r == sig % 2^shift
                  half == 2^(shift - 1)
                  up == r > half \/ (r = half /\ q % 2 = 1)
                  q1 == IF up THEN q + 1 ELSE q
              IN IF q1 = 2^24 THEN [m |-> sign * 2^23, e |-> e + shift + 1]
                 ELSE [m |-> sign * q1, e |-> e + shift]

\* `n as f32` for an integer n, |n| < 2^24.
FromInt(n) == RoundSig(Sign(n), Abs(n), 0)

FNeg(a) == [m |-> -a.m, e |-> a.e]

\* sig shifted right by d digits, a non-zero remainder kept in the lowest digit.
ShiftRightSticky(sig, d) ==
    IF d = 0 THEN sig
    ELSE IF d >= 30 THEN (IF sig = 0 THEN 0 ELSE 1)
    ELSE LET q == sig \div 2^d IN
         IF sig % 2^d # 0 /\ q % 2 = 0 THEN q + 1 ELSE q

\* a + b
FAdd(a, b) ==
    IF a.m = 0 THEN b
    ELSE IF b.m = 0 THEN a
    ELSE LET big == IF a.e > b.e \/ (a.e = b.e /\ Abs(a.m) >= Abs(b.m)) THEN a ELSE b
             small == IF big = a THEN b ELSE a
             X == Abs(big.m) * 8
             Y == ShiftRightSticky(Abs(small.m) * 8, big.e - small.e)
             S == IF Sign(big.m) = Sign(small.m) THEN X + Y ELSE X - Y
         IN RoundSig(Sign(big.m), S, big.e - 3)

\* a - b
FSub(a, b) == FAdd(a, FNeg(b))

\* a * b: the 48-digit product of the mantissas, by halves of 12 digits.
FMul(a, b) ==
    IF a.m = 0 \/ b.m = 0 THEN FZero
    ELSE LET x == Abs(a.m)
             y == Abs(b.m)
             x1 == x \div 4096
             x0 == x % 4096
             y1 == y \div 4096
             y0 == y % 4096
             mid == x1 * y0 + x0 * y1
             low0 == x0 * y0 + (mid % 4096) * 4096
             low == low0 % 16777216
             high == x1 * y1 + mid \div 4096 + low0 \div 16777216
             top == high * 8 + low \div 2097152
             S == IF low % 2097152 # 0 /\ top % 2 = 0 THEN top + 1 ELSE top
         IN RoundSig(Sign(a.m) * Sign(b.m), S, a.e + b.e + 21)

\* n further digits of the quotient r / d, r < d: <<quotient, remainder>>.
RECURSIVE DivDigits(_, _, _, _)
DivDigits(q, r, d, n) ==
    IF n = 0 THEN <<q, r>>
    ELSE IF 2 * r >= d THEN DivDigits(2 * q + 1, 2 * r - d, d, n - 1)
    ELSE DivDigits(2 * q, 2 * r, d, n - 1)

\* a / b, b not zero
FDiv(a, b) ==
    IF a.m = 0 THEN FZero
    ELSE LET x == Abs(a.m)
             y == Abs(b.m)
             qr == DivDigits(x \div y, x % y, y, 26)
             S == IF qr[2] # 0 /\ qr[1] % 2 = 0 THEN qr[1] + 1 ELSE qr[1]
         IN RoundSig(Sign(a.m) * Sign(b.m), S, a.e - b.e - 26)

\* The integer part of a non-negative f32 below 2^24.
FTrunc(a) ==
    IF a.m <= 0 \/ a.e < -30 THEN 0
    ELSE IF a.e >= 0 THEN a.m * 2^a.e
    ELSE a.m \div 2^(-a.e)

\* `a.clamp(0.0, 255.0) as u8`
FClampAsU8(a) ==
    IF a.m <= 0 THEN 0 ELSE IF a.e > -16 THEN 255 ELSE FTrunc(a)

\* `a.round().clamp(0.0, 255.0) as u8`: halves round away from zero.
FRoundClampAsU8(a) ==
    IF a.m <= 0 \/ a.e < -30 THEN 0
    ELSE IF a.e > -16 THEN 255
    ELSE LET r == (a.m \div 2^(-a.e - 1) + 1) \div 2 IN
         IF r > 255 THEN 255 ELSE r

\* `n as f32 / 255.0`
F255 == FromInt(255)

(***************************************************************************)
(* The pure functions: their arguments are drawn in the initial state and  *)
(* each action applies one function to them.                               *)
(***************************************************************************)
\* A normalisation profile of ModelMeta: mean and std per channel, scale.
Profile(mean, std, scale) == [mean |-> mean, std |-> std, scale |-> scale]

FOne == FromInt(1)

\* default_mean, default_std, default_scale
ProfileDefault == Profile(<<FZero, FZero, FZero>>, <<FOne, FOne, FOne>>, FOne)

NoCodec ==
    [o |-> <<>>, p |-> <<>>, s2 |-> 0, w |-> 0, h |-> 0, dw |-> 0, dh |-> 0,
     prof |-> ProfileDefault, op |-> "none", res |-> "none", data |-> <<>>,
     enc |-> "none", tensor |-> <<>>, pay |-> Placeholder,
     \* the style name and the style_strength of a transfer
     style |-> "", strength |-> 0]

\* The pixels of the sample buffers: red, green, blue, alpha.
PixelA == <<10, 201, 30, 128>>

PixelB == <<255, 100, 7, 255>>

Pixels == {PixelA, PixelB}

\* The trailing part of a buffer that is not a whole pixel.
Tails == {<<>>, <<7>>, <<7, 9, 11>>}

RECURSIVE Flatten(_)
Flatten(pixels) ==
    IF pixels = <<>> THEN <<>> ELSE Head(pixels) \o Flatten(Tail(pixels))

PixelSeqs == UNION {[1..n -> Pixels] : n \in 0..MaxPixels}

Buffers == {Flatten(ps) \o t : ps \in PixelSeqs, t \in Tails}

\* Strengths are given in halves: s2 = 2 * strength, so -1, 0, 0.5, 1, 2.
\* Every product and sum of the blend formulas is then exact in f32.
Strengths2 == {-2, 0, 1, 2, 4}

\* A linear interpolation with the two images exchanged.
C13_Mutant_Lerp2(orig, style, s2) == style * (2 - s2) + orig * s2

\* f32::clamp(0.0, 1.0), in halves.
Clamp01(s2) == IF s2 < 0 THEN 0 ELSE IF s2 > 2 THEN 2 ELSE s2

\* orig * (1.0 - strength) + style * strength, doubled.
Lerp2(orig, style, s2) == orig * (2 - s2) + style * s2

\* `x as u8` for x = v2 / 2: truncation towards zero, saturating.
AsU8Half(v2) ==
    IF v2 <= 0 THEN 0 ELSE IF v2 >= 510 THEN 255 ELSE v2 \div 2

\* `x.round() as u8` for x = v2 / 2: halves round away from zero.
RoundAsU8Half(v2) ==
    IF v2 <= 0 THEN 0 ELSE IF v2 >= 510 THEN 255 ELSE (v2 + 1) \div 2

\* The indices (from 1) of the first bytes of (0..n).step_by(4).
StepBy4(n) == {i \in 1..n : (i - 1) % 4 = 0}

\* stylizer blend_rgba: Err on unequal lengths; every step writes
\* base[i..i+3], which panics when the last pixel is not whole.
BlendRgba(base, top, s2) ==
    IF Len(base) # Len(top) THEN [res |-> "InvalidDims", data |-> <<>>]
    ELSE IF Len(base) % 4 # 0 THEN [res |-> "Panic", data |-> <<>>]
    ELSE LET a == Clamp01(s2) IN
         [res |-> "Ok",
          data |-> [i \in 1..Len(base) |->
                      IF i % 4 = 0 THEN 255
                      ELSE RoundAsU8Half(Lerp2(base[i], top[i], a))]]

\* The pixels both buffers hold in full, blended one after the other with
\* the alpha byte 255 or, if keepAlpha, the original's.
BlendPixels(firsts, original, stylized, s2, keepAlpha) ==
    LET n == Cardinality(firsts)
        first(k) == CHOOSE i \in firsts : Cardinality({j \in firsts : j < i}) = k - 1
    IN [x \in 1..(4 * n) |->
          LET i == first((x + 3) \div 4)
              c == (x - 1) % 4
          IN IF c = 3 THEN (IF keepAlpha THEN original[i + 3] ELSE 255)
             ELSE AsU8Half(Lerp2(original[i + c], stylized[i + c], s2))]

\* rust-core lib.rs blend_images: no length check; a pixel is written when
\* both buffers hold its four bytes.
LibBlendImages(original, stylized, s2) ==
    LET firsts == {i \in StepBy4(Len(original)) :
                     i + 3 <= Len(original) /\ i + 3 <= Len(stylized)}
    IN [res |-> "Ok",
        data |-> BlendPixels(firsts, original, stylized, Clamp01(s2), FALSE)]

\* image_utils.rs ImageProcessor::blend_images
UtilsBlendImages(original, stylized, s2) ==
    IF Len(original) # Len(stylized) THEN [res |-> "SizesDontMatch", data |-> <<>>]
    ELSE LET firsts == {i \in StepBy4(Len(original)) : i + 3 <= Len(original)}
         IN [res |-> "Ok",
             data |-> BlendPixels(firsts, original, stylized, Clamp01(s2), FALSE)]

\* onnx_engine.rs blend_with_original: the chunks of four bytes of the two
\* buffers are zipped; the strength is used as given and the alpha byte is
\* the original's.
OnnxBlendWithOriginal(original, stylized, s2) ==
    LET firsts == {i \in StepBy4(Len(original)) :
                     i + 3 <= Len(original) /\ i + 3 <= Len(stylized)}
    IN [res |-> "Ok", data |-> BlendPixels(firsts, original, stylized, s2, TRUE)]

BlendEntryPoints == {"blend_rgba", "blend_images", "utils_blend_images", "blend_with_original"}

\* The blend entry point named op applied to (original, produced, strength).
BlendBy(op, original, produced, s2) ==
    CASE op = "blend_rgba" -> BlendRgba(original, produced, s2)
      [] op = "blend_images" -> LibBlendImages(original, produced, s2)
      [] op = "utils_blend_images" -> UtilsBlendImages(original, produced, s2)
      [] op = "blend_with_original" -> OnnxBlendWithOriginal(original, produced, s2)

\* src/lib.rs apply_style_transform with style_strength 0.0: the colour the
\* style kernel computes is finite and is multiplied by 0.0, so each colour
\* byte is the original's; the alpha byte is copied and the bytes of a
\* trailing partial pixel stay 0.  pixel_index / width panics for width 0.
SrcApplyStyleTransformAtZero(image_data, width) ==
    IF width = 0 /\ Len(image_data) >= 4 THEN [res |-> "Panic", data |-> <<>>]
    ELSE [res |-> "Ok",
          data |-> [i \in 1..Len(image_data) |->
                      IF i <= 4 * (Len(image_data) \div 4) THEN image_data[i] ELSE 0]]

\* set_style_strength (strength.max(0.0).min(1.0)) then apply_style_transform
\* on the buffer held, as process_image calls it once a style is loaded;
\* only the strength whose kernel term vanishes is applied.
SrcTransform ==
    /\ unit = "blend"
    /\ Clamp01(codec.s2) = 0
    /\ LET r == SrcApplyStyleTransformAtZero(codec.o, codec.w) IN
       codec' = [codec EXCEPT !.op = "apply_style_transform", !.res = r.res, !.data = r.data]
    /\ UNCHANGED <<unit, image, hasher, engineVars>>

\* A call of one blend entry point on the arguments held.
Blend(op) ==
    /\ unit = "blend"
    /\ LET r == BlendBy(op, codec.o, codec.p, codec.s2) IN
       codec' = [codec EXCEPT !.op = op, !.res = r.res, !.data = r.data]
    /\ UNCHANGED <<unit, image, hasher, engineVars>>

(***************************************************************************)
(* The codec: resize, encode (image to planar tensor), decode.             *)
(***************************************************************************)
\* A model whose tensors are in 0..255: mean 0, std 1, scale 255.
ProfileScale255 == Profile(<<FZero, FZero, FZero>>, <<FOne, FOne, FOne>>, F255)

\* mean [0.485, 0.456, 0.406], std [0.229, 0.224, 0.225] as f32, scale 1.
ProfileImageNet ==
    Profile(<<[m |-> 16273900, e |-> -25], [m |-> 15300821, e |-> -25], [m |-> 13623099, e |-> -25]>>,
            <<[m |-> 15367930, e |-> -26], [m |-> 15032386, e |-> -26], [m |-> 15099494, e |-> -26]>>,
            FOne)

\* mean 2^24 in every channel, std 1, scale 1.
ProfileLargeMean ==
    Profile(<<[m |-> 8388608, e |-> 1], [m |-> 8388608, e |-> 1], [m |-> 8388608, e |-> 1]>>,
            <<FOne, FOne, FOne>>, FOne)

ModerateProfiles == {ProfileDefault, ProfileScale255, ProfileImageNet}

Profiles == ModerateProfiles \cup {ProfileLargeMean}

PixelC == <<0, 64, 255, 0>>

Palette == <<PixelA, PixelB, PixelC>>

\* n pixels, the palette repeated from its second entry on.
PixelRun(n) == Flatten([j \in 1..n |-> Palette[(j % 3) + 1]])

\* Image buffers of 0..MaxDim*MaxDim pixels, with or without a stray byte.
CodecBuffers ==
    {PixelRun(n) \o t : n \in 0..(MaxDim * MaxDim), t \in {<<>>, <<7>>}}

\* The one-pixel images of every grey level.
GreyPixels == {<<b, b, b, 255>> : b \in 0..255}

\* The same buffer with every alpha byte replaced by a.
WithAlpha(buf, a) == [i \in 1..Len(buf) |-> IF i % 4 = 0 THEN a ELSE buf[i]]

\* The pairs (x, y) of `for y in 0..h { for x in 0..w {`.
Coords(w, h) == (0..(w - 1)) \X (0..(h - 1))

\* ((channel / 255.0 - mean[c]) / std[c]) * scale
Normalise(byte, prof, c) ==
    FMul(FDiv(FSub(FDiv(FromInt(byte), F255), prof.mean[c]), prof.std[c]), prof.scale)

\* A resize that never takes the identity path.
C17_Mutant_IsIdentity(sw, sh, dw, dh) == FALSE

\* bilinear_resize_rgba, line 97
IsIdentityResize(sw, sh, dw, dh) == sw = dw /\ sh = dh

\* x_l and y_l: the floor of i * ratio, ratio being (s - 1) as f32 / d as f32.
BilinearLow(i, s, d) == FTrunc(FMul(FromInt(i), FDiv(FromInt(s - 1), FromInt(d))))

\* An upper neighbour that is not held back at the last row or column.
C24_Mutant_High(i, s, d) == BilinearLow(i, s, d) + 1

\* x_h and y_h: (low + 1).min(s - 1)
BilinearHigh(i, s, d) == Min(BilinearLow(i, s, d) + 1, s - 1)

\* bilinear_resize_rgba for sw, sh >= 1, after the identity test: the
\* interpolation of lines 98-124.  A read past the source panics.
BilinearPixels(src, sw, sh, dw, dh) ==
    LET x_ratio == FDiv(FromInt(sw - 1), FromInt(dw))
        y_ratio == FDiv(FromInt(sh - 1), FromInt(dh))
        fy(y) == FMul(FromInt(y), y_ratio)
        y_l(y) == BilinearLow(y, sh, dh)
        y_h(y) == BilinearHigh(y, sh, dh)
        y_w(y) == FSub(fy(y), FromInt(y_l(y)))
        fx(x) == FMul(FromInt(x), x_ratio)
        x_l(x) == BilinearLow(x, sw, dw)
        x_h(x) == BilinearHigh(x, sw, dw)
        x_w(x) == FSub(fx(x), FromInt(x_l(x)))
        at(yy, xx, c) == (yy * sw + xx) * 4 + c + 1
        reads == {at(y_h(y), x_h(x), 3) : <<x, y>> \in Coords(dw, dh)}
        lerp(a, b, t) == FAdd(FMul(a, FSub(FOne, t)), FMul(b, t))
        pix(x, y, c) ==
            LET p0 == lerp(FromInt(src[at(y_l(y), x_l(x), c)]), FromInt(src[at(y_l(y), x_h(x), c)]), x_w(x))
                p1 == lerp(FromInt(src[at(y_h(y), x_l(x), c)]), FromInt(src[at(y_h(y), x_h(x), c)]), x_w(x))
            IN FRoundClampAsU8(lerp(p0, p1, y_w(y)))
    IN IF \E i \in reads : i > Len(src) THEN [res |-> "Panic", data |-> <<>>]
       ELSE [res |-> "Ok",
             data |-> [j \in 1..(dw * dh * 4) |->
                         LET idx == (j - 1) \div 4 IN pix(idx % dw, idx \div dw, (j - 1) % 4)]]

\* bilinear_resize_rgba: the outcomes a build can give.  With sw = 0 or
\* sh = 0 off the identity path, `sw - 1` overflows: a debug build panics
\* there; a release build wraps, returns the empty buffer when dw * dh = 0
\* and otherwise reads the pixel after the first, which a source of at most
\* one pixel does not have.
BilinearResizeRgba(src, sw, sh, dw, dh) ==
    IF IsIdentityResize(sw, sh, dw, dh) THEN {[res |-> "Ok", data |-> src]}
    ELSE IF sw = 0 \/ sh = 0
    THEN {[res |-> "Panic", data |-> <<>>]}
         \cup (CASE dw * dh = 0 -> {[res |-> "Ok", data |-> <<>>]}
                 [] dw * dh > 0 /\ Len(src) <= 4 -> {[res |-> "Panic", data |-> <<>>]})
    ELSE {BilinearPixels(src, sw, sh, dw, dh)}

\* nchw_from_rgba: the pixel loop writes the three planes; reading
\* rgba[i + 2] past the buffer panics.  The length is never compared to
\* w * h * 4.
NchwFromRgba(rgba, w, h, prof) ==
    LET plane == w * h
        i(xy) == (xy[2] * w + xy[1]) * 4
        idx(xy) == xy[2] * w + xy[1]
        written(j, c) == {xy \in Coords(w, h) : (c - 1) * plane + idx(xy) = j - 1}
        value(j, c) == LET xy == CHOOSE xy \in written(j, c) : TRUE IN
                       Normalise(rgba[i(xy) + c], prof, c)
    IN IF \E xy \in Coords(w, h) : i(xy) + 3 > Len(rgba)
       THEN [res |-> "Panic", tensor |-> <<>>]
       ELSE [res |-> "Ok",
             tensor |-> [j \in 1..(3 * w * h) |->
                           IF written(j, 1) # {} THEN value(j, 1)
                           ELSE IF written(j, 2) # {} THEN value(j, 2)
                           ELSE IF written(j, 3) # {} THEN value(j, 3)
                           ELSE FZero]]

\* A decoder that forgets to add the mean back.
C19_Mutant_Denormalise(v, prof, c) ==
    FClampAsU8(FMul(FMul(FDiv(v, prof.scale), prof.std[c]), F255))

\* ((plane value / scale) * std[c] + mean[c]) * 255.0, clamped, `as u8`
Denormalise(v, prof, c) ==
    FClampAsU8(FMul(FAdd(FMul(FDiv(v, prof.scale), prof.std[c]), prof.mean[c]), F255))

\* rgba_from_nchw: reading data[plane * 2 + idx] past the tensor panics.
RgbaFromNchw(data, w, h, prof) ==
    LET plane == w * h IN
    IF plane > 0 /\ Len(data) < 3 * plane THEN [res |-> "Panic", data |-> <<>>]
    ELSE [res |-> "Ok",
          data |-> [j \in 1..(w * h * 4) |->
                      LET idx == (j - 1) \div 4
                          c == ((j - 1) % 4) + 1
                      IN IF c = 4 THEN 255
                         ELSE Denormalise(data[(c - 1) * plane + idx + 1], prof, c)]]

\* The positions of a target_size x target_size grid in row order.
Grid(target_size) == [k \in 1..(target_size * target_size) |->
                        <<(k - 1) % target_size, (k - 1) \div target_size>>]

\* A layout step that leaves the values interleaved.
C18_Mutant_Hwc(result, target_size) == [res |-> "Ok", tensor |-> result]

\* HWC to CHW, the loop shared by the rust-core preprocessors: a read past
\* the interleaved vector panics.
ChwFromHwc(result, target_size) ==
    LET hw_size == target_size * target_size IN
    IF Len(result) < 3 * hw_size THEN [res |-> "Panic", tensor |-> <<>>]
    ELSE [res |-> "Ok",
          tensor |-> [j \in 1..(3 * hw_size) |->
                        LET c == (j - 1) \div hw_size
                            i == (j - 1) % hw_size
                        IN result[i * 3 + c + 1]]]

\* `(x as f32 * scale) as u32`, scale = a as f32 / b as f32
ScaledIndex(x, a, b) == FTrunc(FMul(FromInt(x), FDiv(FromInt(a), FromInt(b))))

\* rust-core lib.rs preprocess_image_data: nearest neighbour, the bytes
\* kept in 0..255; a pixel whose bytes are not in the buffer pushes nothing.
LibPreprocessImageData(data, width, height, target_size) ==
    LET pushed(xy) ==
            LET src_x == ScaledIndex(xy[1], width, target_size)
                src_y == ScaledIndex(xy[2], height, target_size)
                idx == (src_y * width + src_x) * 4
            IN IF src_x < width /\ src_y < height
               THEN IF idx + 3 <= Len(data)
                    THEN <<FromInt(data[idx + 1]), FromInt(data[idx + 2]), FromInt(data[idx + 3])>>
                    ELSE <<>>
               ELSE <<FZero, FZero, FZero>>
        grid == Grid(target_size)
    IN ChwFromHwc(Flatten([k \in 1..Len(grid) |-> pushed(grid[k])]), target_size)

\* (byte / 255.0) * 2.0 - 1.0
UtilsNormalise(byte) == FSub(FMul(FDiv(FromInt(byte), F255), FromInt(2)), FOne)

\* image_utils.rs ImageProcessor::preprocess_image: nearest neighbour,
\* values in [-1, 1], zeros for a pixel whose bytes are not in the buffer.
UtilsPreprocessImage(image_data, width, height, target_size) ==
    LET pushed(xy) ==
            LET src_x == ScaledIndex(xy[1], width, target_size)
                src_y == ScaledIndex(xy[2], height, target_size)
                src_idx == (src_y * width + src_x) * 4
            IN IF src_idx + 3 <= Len(image_data)
               THEN <<UtilsNormalise(image_data[src_idx + 1]), UtilsNormalise(image_data[src_idx + 2]),
                      UtilsNormalise(image_data[src_idx + 3])>>
               ELSE <<FZero, FZero, FZero>>
        grid == Grid(target_size)
    IN ChwFromHwc(Flatten([k \in 1..Len(grid) |-> pushed(grid[k])]), target_size)

\* rust-core lib.rs postprocess_image_data: one pixel per position of the
\* original_width x original_height image; a read past the tensor panics.
LibPostprocessImageData(data, original_width, original_height, processed_size) ==
    LET hw_size == processed_size * processed_size
        src(xy) == <<ScaledIndex(xy[1], processed_size, original_width),
                     ScaledIndex(xy[2], processed_size, original_height)>>
        inside(xy) == src(xy)[1] < processed_size /\ src(xy)[2] < processed_size
        idx(xy) == src(xy)[2] * processed_size + src(xy)[1]
        n == original_width * original_height
        pos(k) == <<(k - 1) % original_width, (k - 1) \div original_width>>
    IN IF \E k \in 1..n : inside(pos(k)) /\ idx(pos(k)) + 2 * hw_size + 1 > Len(data)
       THEN [res |-> "Panic", data |-> <<>>]
       ELSE [res |-> "Ok",
             data |-> [j \in 1..(4 * n) |->
                         LET xy == pos(((j - 1) \div 4) + 1)
                             c == (j - 1) % 4
                         IN IF c = 3 THEN 255
                            ELSE IF inside(xy) THEN FClampAsU8(data[idx(xy) + c * hw_size + 1])
                            ELSE 0]]

\* onnx_engine.rs preprocess_image with resize_image_data: the bytes of
\* every chunk of at least three become floats in [0, 1], are resampled to
\* the target and laid out in planes; positions without source stay 0.0.
\* No length is checked and no error is returned.
OnnxPreprocessImage(image_data, width, height, target_width, target_height) ==
    LET chunks == NumChunks(Len(image_data), 4)
        rgb_data == Flatten([k \in 1..chunks |->
                       IF ChunkLen(Len(image_data), 4, k) >= 3
                       THEN [c \in 1..3 |-> FDiv(FromInt(image_data[(k - 1) * 4 + c]), F255)]
                       ELSE <<>>])
        src_idx(x, y) ==
            LET src_x == FTrunc(FDiv(FMul(FromInt(x), FromInt(width)), FromInt(target_width)))
                src_y == FTrunc(FDiv(FMul(FromInt(y), FromInt(height)), FromInt(target_height)))
            IN (src_y * width + src_x) * 3
        resized == [j \in 1..(target_width * target_height * 3) |->
                      LET d == (j - 1) \div 3
                          s == src_idx(d % target_width, d \div target_width)
                      IN IF s + 3 <= Len(rgb_data) THEN rgb_data[s + ((j - 1) % 3) + 1] ELSE FZero]
        hw_size == target_width * target_height
    IN [res |-> "Ok",
        tensor |-> [j \in 1..(3 * hw_size) |-> resized[((j - 1) % hw_size) * 3 + ((j - 1) \div hw_size) + 1]]]

Encoders == {"nchw_from_rgba", "preprocess_image_data", "utils_preprocess_image"}

\* The encoder named op applied to an image, the rust-core ones with the
\* image's width as target size.
EncodeBy(op, buf, w, h, prof) ==
    CASE op = "nchw_from_rgba" -> NchwFromRgba(buf, w, h, prof)
      [] op = "preprocess_image_data" -> LibPreprocessImageData(buf, w, h, w)
      [] op = "utils_preprocess_image" -> UtilsPreprocessImage(buf, w, h, w)

\* The value the encoder named op gives a byte of channel c.
NormaliseBy(op, byte, prof, c) ==
    CASE op = "nchw_from_rgba" -> Normalise(byte, prof, c)
      [] op = "preprocess_image_data" -> FromInt(byte)
      [] op = "utils_preprocess_image" -> UtilsNormalise(byte)

\* A resize of the image held to dw x dh.
Resize ==
    /\ unit = "resize"
    /\ \E r \in BilinearResizeRgba(codec.o, codec.w, codec.h, codec.dw, codec.dh) :
          codec' = [codec EXCEPT !.op = "resize", !.res = r.res, !.data = r.data]
    /\ UNCHANGED <<unit, image, hasher, engineVars>>

\* What an encoder leaves: its tensor, and no image.
Encoded(op, r) ==
    [codec EXCEPT !.op = op, !.res = r.res, !.enc = op, !.tensor = r.tensor, !.data = <<>>]

\* nchw_from_rgba on the image held.
Encode ==
    /\ unit = "codec"
    /\ codec' = Encoded("nchw_from_rgba", NchwFromRgba(codec.o, codec.w, codec.h, codec.prof))
    /\ UNCHANGED <<unit, image, hasher, engineVars>>

\* preprocess_image_data on the image held, the target being its width.
LibPreprocess ==
    /\ unit = "codec"
    /\ codec' = Encoded("preprocess_image_data", LibPreprocessImageData(codec.o, codec.w, codec.h, codec.w))
    /\ UNCHANGED <<unit, image, hasher, engineVars>>

\* ImageProcessor::preprocess_image on the image held, the target being its width.
UtilsPreprocess ==
    /\ unit = "codec"
    /\ codec' = Encoded("utils_preprocess_image", UtilsPreprocessImage(codec.o, codec.w, codec.h, codec.w))
    /\ UNCHANGED <<unit, image, hasher, engineVars>>

\* ONNXStyleTransferEngine::preprocess_image on the image held, the target
\* shape being the image's.
OnnxPreprocess ==
    /\ unit = "codec"
    /\ codec' = Encoded("onnx_preprocess_image", OnnxPreprocessImage(codec.o, codec.w, codec.h, codec.w, codec.h))
    /\ UNCHANGED <<unit, image, hasher, engineVars>>

\* rgba_from_nchw on the tensor held.
Decode ==
    /\ unit = "codec"
    /\ LET r == RgbaFromNchw(codec.tensor, codec.w, codec.h, codec.prof) IN
       codec' = [codec EXCEPT !.op = "rgba_from_nchw", !.res = r.res, !.data = r.data]
    /\ UNCHANGED <<unit, image, hasher, engineVars>>

\* postprocess_image_data on the tensor held, its side being the image's width.
LibPostprocess ==
    /\ unit = "codec"
    /\ LET r == LibPostprocessImageData(codec.tensor, codec.w, codec.h, codec.w) IN
       codec' = [codec EXCEPT !.op = "postprocess_image_data", !.res = r.res, !.data = r.data]
    /\ UNCHANGED <<unit, image, hasher, engineVars>>

(***************************************************************************)
(* Validation of a model payload.                                          *)
(***************************************************************************)
\* The lengths around 0, the four bytes of the magic, the two thresholds of
\* onnx_engine.rs and the length of the placeholder.
PayloadLens ==
    {n \in {t + d : t \in {0, 4, MinModelLen, SimplifiedMinLen, Placeholder.len}, d \in (0 - MaxSlack)..MaxSlack} : n >= 0}

\* A payload of n bytes whose first four bytes are or are not "ONNX".
ValidatedPayloads ==
    {pl \in [len : PayloadLens, magic : BOOLEAN, runtimeOk : {FALSE}] : pl.magic => pl.len >= 4}

\* models.rs validate_onnx_model
ModelsValidateOnnxModel(model_data) ==
    IF model_data.len < MinModelLen THEN FALSE
    ELSE IF model_data.len >= 4 /\ model_data.magic THEN TRUE
    ELSE FALSE

\* models.rs load_onnx_model_from_url: vec![0u8; 1024]
ModelsLoadOnnxModelFromUrl == Placeholder

Verdict(ok) == IF ok THEN "accepted" ELSE "rejected"

\* ONNXStyleTransferEngine::validate_onnx_model on the payload held.
OnnxValidate ==
    /\ unit = "validate"
    /\ codec' = [codec EXCEPT !.op = "onnx_validate_onnx_model", !.res = Verdict(OnnxValidateModel(codec.pay))]
    /\ UNCHANGED <<unit, image, hasher, engineVars>>

\* models.rs validate_onnx_model on the payload held.
ModelsValidate ==
    /\ unit = "validate"
    /\ codec' = [codec EXCEPT !.op = "models_validate_onnx_model", !.res = Verdict(ModelsValidateOnnxModel(codec.pay))]
    /\ UNCHANGED <<unit, image, hasher, engineVars>>

\* load_onnx_model_from_url: the payload held becomes the one it returns.
ModelsLoad ==
    /\ unit = "validate"
    /\ codec' = [codec EXCEPT !.op = "load_onnx_model_from_url", !.res = "Ok", !.pay = ModelsLoadOnnxModelFromUrl]
    /\ UNCHANGED <<unit, image, hasher, engineVars>>

(***************************************************************************)
(* engine.rs: the pixel loops of transfer_style and quick_transfer_style.  *)
(* Every arm of their match computes, for the red, green and blue byte of  *)
(* each pixel,                                                             *)
(*     ((v * (1.0 + strength_factor * a) + strength_factor * b) + t) * p   *)
(* clamped to 0..255 and cast to u8, with f32 literals a and b, a wave     *)
(* term t and a pattern factor p.  An arm that has no b, t or p is the     *)
(* same value with b = 0, t = 0, p = 1: x + 0.0 and x * 1.0 are exact.     *)
(***************************************************************************)
\* The style_strength arguments, in percent.
StyleStrengths == {0, 50, 100, 250, -50}

\* strength_factor = style_strength / 100.0
EngStrengthFactor(style_strength) == FDiv(FromInt(style_strength), FromInt(100))

\* The f32 literal n / 100, for an integer n.
Hundredths(n) == FDiv(FromInt(n), FromInt(100))

\* a < b
FLess(a, b) == FSub(a, b).m < 0

\* The literals <<a, b>> of the red, green and blue channel in the arm of a
\* style name, a in hundredths; low: the pixel's brightness is below 128.
EngCoefficients(style_name, quick, low) ==
    IF quick
    THEN CASE style_name = "van-gogh" -> <<<<30, 15>>, <<20, 10>>, <<-20, 0>>>>
           [] style_name = "picasso" -> <<<<-30, 0>>, <<40, 20>>, <<30, 15>>>>
           [] style_name = "cyberpunk" -> <<<<60, 30>>, <<-40, 0>>, <<80, 40>>>>
           [] style_name = "watercolor" -> <<<<15, 8>>, <<25, 12>>, <<15, 8>>>>
           [] style_name = "oil-painting" -> <<<<50, 25>>, <<40, 20>>, <<30, 15>>>>
           [] OTHER -> <<<<20, 0>>, <<20, 0>>, <<20, 0>>>>
    ELSE CASE style_name = "van-gogh" -> <<<<40, 20>>, <<30, 15>>, <<-30, -10>>>>
           [] style_name = "picasso" -> <<<<-40, 0>>, <<50, 25>>, <<40, 20>>>>
           [] style_name = "cyberpunk" -> <<<<80, 40>>, <<-50, 0>>, <<100, 50>>>>
           [] style_name = "watercolor" -> <<<<20, 10>>, <<30, 15>>, <<20, 10>>>>
           [] style_name = "oil-painting" -> <<<<60, 30>>, <<50, 25>>, <<40, 20>>>>
           [] OTHER -> IF low THEN <<<<30, 0>>, <<30, 0>>, <<30, 0>>>>
                       ELSE <<<<10, 0>>, <<10, 0>>, <<10, 0>>>>

\* (i as f32 * 0.1).sin(), (i * 0.05).sin(), (i * 0.02).sin() and
\* (i * 0.03).cos() of transfer_style, as f32, for i = 0, 4, 8, 12, 16.
EngWaveTable(style_name) ==
    CASE style_name = "van-gogh" ->
            <<FZero, [m |-> 13066711, e |-> -25], [m |-> 12035238, e |-> -24],
              [m |-> 15637021, e |-> -24], [m |-> 16770062, e |-> -24]>>
      [] style_name = "cyberpunk" ->
            <<FZero, [m |-> 13332473, e |-> -26], [m |-> 13066711, e |-> -25],
              [m |-> 9473129, e |-> -24], [m |-> 12035238, e |-> -24]>>
      [] style_name = "watercolor" ->
            <<FZero, [m |-> 10725968, e |-> -27], [m |-> 10691664, e |-> -26],
              [m |-> 15951953, e |-> -26], [m |-> 10555102, e |-> -25]>>
      [] style_name = "oil-painting" ->
            <<[m |-> 8388608, e |-> -23], [m |-> 16656565, e |-> -24],
              [m |-> 16296347, e |-> -24], [m |-> 15701743, e |-> -24],
              [m |-> 14881305, e |-> -24]>>

\* The wave term of channel c of the pixel at byte i: texture, glow or flow,
\* wave * strength_factor * gain, the glow of cyberpunk's green times 0.3.
EngWave(style_name, quick, i, c, sf) ==
    IF quick \/ style_name \notin {"van-gogh", "cyberpunk", "watercolor", "oil-painting"}
    THEN FZero
    ELSE LET gain == CASE style_name = "van-gogh" -> 15
                       [] style_name = "cyberpunk" -> 30
                       [] style_name = "watercolor" -> 20
                       [] style_name = "oil-painting" -> 25
             t == FMul(FMul(EngWaveTable(style_name)[(i \div 4) + 1], sf), FromInt(gain))
         IN IF style_name = "cyberpunk" /\ c = 2 THEN FMul(t, Hundredths(30)) ELSE t

\* picasso of transfer_style: if (i / 4) % 2 == 0 { 1.0 } else { 0.8 }
EngPattern(style_name, quick, i) ==
    IF ~quick /\ style_name = "picasso" /\ (i \div 4) % 2 # 0 THEN Hundredths(80) ELSE FOne

\* The loop over the pixels: a pixel at byte i is changed when i + 2 <
\* len; its alpha byte, and a byte after the last such pixel, are left.
EngStylePixels(image_data, style_name, sf, quick) ==
    [j \in 1..Len(image_data) |->
        LET i == 4 * ((j - 1) \div 4)
            c == ((j - 1) % 4) + 1
        IN IF c = 4 \/ ~(i + 2 < Len(image_data)) THEN image_data[j]
           ELSE LET brightness == FDiv(FromInt(image_data[i + 1] + image_data[i + 2] + image_data[i + 3]), FromInt(3))
                    ab == EngCoefficients(style_name, quick, FLess(brightness, FromInt(128)))[c]
                    v == FMul(FromInt(image_data[j]), FAdd(FOne, FMul(sf, Hundredths(ab[1]))))
                    w == FAdd(v, FMul(sf, FromInt(ab[2])))
                IN FClampAsU8(FMul(FAdd(w, EngWave(style_name, quick, i, c, sf)),
                                   EngPattern(style_name, quick, i))) ]

\* transfer_style on the image held, with a callback of behaviour cb.
TransferStyle(cb) ==
    /\ unit = "engine"
    /\ LET r == EngTransferStep(eng_initialized, eng_models, Len(codec.o), codec.style, cb) IN
       codec' = [codec EXCEPT
                   !.op = "transfer_style", !.res = r.res,
                   !.data = IF r.res = "Ok"
                            THEN EngStylePixels(codec.o, codec.style, EngStrengthFactor(codec.strength), FALSE)
                            ELSE <<>>]
    /\ UNCHANGED <<unit, image, hasher, engineVars>>

\* quick_transfer_style on the image held.
QuickTransferStyle ==
    /\ unit = "engine"
    /\ LET r == EngQuickTransferStep(eng_initialized, Len(codec.o), codec.style) IN
       codec' = [codec EXCEPT
                   !.op = "quick_transfer_style", !.res = r.res,
                   !.data = IF r.res = "Ok"
                            THEN EngStylePixels(codec.o, codec.style, EngStrengthFactor(codec.strength), TRUE)
                            ELSE <<>>]
    /\ UNCHANGED <<unit, image, hasher, engineVars>>

(***************************************************************************)
(* Initial state and next-state relation.                                  *)
(***************************************************************************)
\* The images a caller of the engine can hold: a buffer length with the
\* width and height it passes along (transfer_style takes no dimensions,
\* run_style is called with the canvas size, style_transfer's load takes
\* no image).
NoDims == [len : ImgLens, w : {0}, h : {0}]

UnitImages(u) ==
    CASE u = "engine" -> NoDims
      [] u = "registry" -> {[len |-> 0, w |-> 0, h |-> 0]}
      [] u = "stylizer" -> [len : ImgLens, w : StyDims, h : StyDims]
      [] OTHER -> [len : ImgLens, w : Dims, h : Dims]

\* Every engine as its constructor leaves it.
Fresh ==
    /\ last = NoCall
    /\ succeeded = {}
    /\ refetched = FALSE
    /\ onnx_models = EmptyMap
    /\ onnx_loaded_models = EmptyMap
    /\ reg_models = EmptyMap
    /\ reg_model_cache = EmptyMap
    /\ webgpu_backend = WebGpuNew
    /\ st_session = NoSession
    /\ st_current_model = NoModel
    /\ sty_STATE = StateUnset
    /\ sty_calls = [slot \in Slots |-> IdleCall]
    /\ LOADED_MODELS = EmptyMap
    /\ nextBuf = 1
    /\ src_inst = [i \in Instances |-> NewInstance]
    /\ eng_gpu_context = FALSE
    /\ eng_models = EmptyMap
    /\ eng_initialized = FALSE

Init ==
    /\ unit \in Units
    /\ image \in UnitImages(unit)
    /\ hasher = OnnxStyleOrder
    /\ codec = NoCodec
    /\ Fresh

OnnxNext ==
    \/ \E n \in OnnxCallNames, resp \in FetchOutcomes : OnnxLoadModel(n, resp)
    \/ \E n \in OnnxCallNames : OnnxApplyStyleTransfer(n)
    \/ \E n \in OnnxCallNames : OnnxRegistryIsModelLoaded(n)

RegNext ==
    \/ \E m \in ManifestOutcomes : RegLoadRegistry(m)
    \/ \E n \in RegCallNames, resp \in RegFetchOutcomes : RegGetModelData(n, resp)
    \/ \E n \in RegCallNames, gpuOk \in BOOLEAN, resp \in RegFetchOutcomes,
          runtime \in RuntimeOutcomes :
          StLoadModel(n, gpuOk, resp, runtime)
    \/ \E len \in {0, 4}, infer \in StInferOutcomes : StStylizeImage(len, infer)

StyNext ==
    \/ \E slot \in Slots, mj \in MetaJsons : StylizerLoadModel(slot, mj)
    \/ \E slot \in Slots, resp \in RegFetchOutcomes : StylizerFetchDone(slot, resp)
    \/ \E slot \in Slots, gpu \in BOOLEAN : StylizerSessionDone(slot, gpu)
    \/ \E infer \in InferOutcomes : StylizerRunStyle(infer)

SrcNext ==
    \/ \E i \in Instances, n \in SrcCallNames : SrcLoadStyleModel(i, n)
    \/ \E i \in Instances : SrcLoadResume(i)
    \/ \E i \in Instances : SrcProcessImage(i)

EngNext ==
    \/ EngInitialize
    \/ EngIsReadyCall
    \/ \E n \in EngCallNames : EngLoadStyle(n)
    \/ \E n \in EngCallNames, cb \in CallbackBehaviours : EngTransferStyle(n, cb)
    \/ \E n \in EngCallNames : EngQuickTransferStyle(n)

Next == OnnxNext \/ RegNext \/ StyNext \/ SrcNext \/ EngNext

\* Every engine of the repository, one per behaviour.
Spec == Init /\ [][Next]_vars

\* ONNXStyleTransferEngine and its registry wrapper alone.
InitOnnx == Init /\ unit = "onnx"

SpecOnnx == InitOnnx /\ [][OnnxNext]_vars

\* ModelRegistry with style_transfer::StyleTransferEngine alone.
InitReg == Init /\ unit = "registry"

SpecRegistry == InitReg /\ [][RegNext]_vars

\* The stylizer crate alone.
InitSty == Init /\ unit = "stylizer"

SpecStylizer == InitSty /\ [][StyNext]_vars

\* The StyleTransfer instances of src/lib.rs alone.
InitSrc == Init /\ unit = "srclib"

SpecSrcLib == InitSrc /\ [][SrcNext]_vars

\* engine::StyleTransferEngine alone.
InitEng == Init /\ unit = "engine"

SpecEngine == InitEng /\ [][EngNext]_vars

\* The load operations of the engines that look a name up in a registry,
\* called by a caller that holds no image.
LoadNext ==
    \/ \E n \in OnnxCallNames, resp \in FetchOutcomes : OnnxLoadModel(n, resp)
    \/ \E m \in ManifestOutcomes : RegLoadRegistry(m)
    \/ \E n \in RegCallNames, resp \in RegFetchOutcomes : RegGetModelData(n, resp)
    \/ \E n \in RegCallNames, gpuOk \in BOOLEAN, resp \in RegFetchOutcomes,
          runtime \in RuntimeOutcomes :
          StLoadModel(n, gpuOk, resp, runtime)
    \/ \E i \in Instances, n \in SrcCallNames : SrcLoadStyleModel(i, n)
    \/ \E i \in Instances : SrcLoadResume(i)
    \/ \E n \in EngCallNames : EngLoadStyle(n)

InitLoad ==
    /\ Init
    /\ unit \in {"onnx", "registry", "srclib", "engine"}
    /\ image = [len |-> 0, w |-> 0, h |-> 0]

SpecLoad == InitLoad /\ [][LoadNext]_vars

\* The engines whose pipeline takes a style or a loaded model: every
\* operation of ONNXStyleTransferEngine, StyleTransferEngine and the stylizer.
RunNext == OnnxNext \/ EngNext \/ StyNext

InitRun == Init /\ unit \in {"onnx", "engine", "stylizer"}

SpecRun == InitRun /\ [][RunNext]_vars

\* The blend functions on every pair of sample buffers and every strength.
BlendNext ==
    \/ \E op \in BlendEntryPoints : Blend(op)
    \/ SrcTransform

InitBlend ==
    /\ unit = "blend"
    /\ image = [len |-> 0, w |-> 0, h |-> 0]
    /\ hasher = OnnxStyleOrder
    /\ \E o \in Buffers, p \in Buffers, s2 \in Strengths2, w \in 0..1 :
          codec = [NoCodec EXCEPT !.o = o, !.p = p, !.s2 = s2, !.w = w]
    /\ Fresh

SpecBlend == InitBlend /\ [][BlendNext]_vars

\* The resize on every sample image; an image without area holds at most
\* one pixel.
ResizeNext == Resize

InitResize ==
    /\ unit = "resize"
    /\ image = [len |-> 0, w |-> 0, h |-> 0]
    /\ hasher = OnnxStyleOrder
    /\ \E o \in CodecBuffers, w \in Dims, h \in Dims, dw \in Dims, dh \in Dims :
          /\ w * h = 0 => Len(o) <= 4
          /\ codec = [NoCodec EXCEPT !.o = o, !.w = w, !.h = h, !.dw = dw, !.dh = dh]
    /\ Fresh

SpecResize == InitResize /\ [][ResizeNext]_vars

\* The encoders and decoders on every sample image, and on the one-pixel
\* image of every grey level under every profile.
CodecNext ==
    \/ Encode
    \/ LibPreprocess
    \/ UtilsPreprocess
    \/ OnnxPreprocess
    \/ Decode
    \/ LibPostprocess

InitCodec ==
    /\ unit = "codec"
    /\ image = [len |-> 0, w |-> 0, h |-> 0]
    /\ hasher = OnnxStyleOrder
    /\ \/ \E o \in CodecBuffers, w \in Dims, h \in Dims, prof \in {ProfileImageNet, ProfileLargeMean} :
             codec = [NoCodec EXCEPT !.o = o, !.w = w, !.h = h, !.prof = prof]
       \/ \E o \in GreyPixels, prof \in Profiles :
             codec = [NoCodec EXCEPT !.o = o, !.w = 1, !.h = 1, !.prof = prof]
    /\ Fresh

SpecCodec == InitCodec /\ [][CodecNext]_vars

\* The validators and the loader of models.rs on every sample payload.
ValidateNext ==
    \/ OnnxValidate
    \/ ModelsValidate
    \/ ModelsLoad

InitValidate ==
    /\ unit = "validate"
    /\ image = [len |-> 0, w |-> 0, h |-> 0]
    /\ hasher = OnnxStyleOrder
    /\ \E pl \in ValidatedPayloads : codec = [NoCodec EXCEPT !.pay = pl]
    /\ Fresh

SpecValidate == InitValidate /\ [][ValidateNext]_vars

\* The listings of the three registries, the manifest registry being
\* filled by load_registry, under every order a HashMap can have.
ListNext ==
    \/ OnnxGetAvailableStyles
    \/ RegGetStyles
    \/ \E m \in ManifestOutcomes : RegLoadRegistry(m)
    \/ ModelsGetAvailableStyles

InitList ==
    /\ unit \in {"onnx", "registry", "models"}
    /\ image = [len |-> 0, w |-> 0, h |-> 0]
    /\ hasher \in HashOrders
    /\ codec = NoCodec
    /\ Fresh

SpecList == InitList /\ [][ListNext]_vars

\* StyleTransferEngine with the pixels of its transfers, on every sample
\* buffer, style name and strength; the style loaded is the one held.
KernelNext ==
    \/ EngInitialize
    \/ EngLoadStyle(codec.style)
    \/ \E cb \in CallbackBehaviours : TransferStyle(cb)
    \/ QuickTransferStyle

InitKernel ==
    /\ unit = "engine"
    /\ image = [len |-> 0, w |-> 0, h |-> 0]
    /\ hasher = OnnxStyleOrder
    /\ \E o \in Buffers, n \in OnnxModelMetadata \cup {UnknownStyle}, s \in StyleStrengths :
          codec = [NoCodec EXCEPT !.o = o, !.style = n, !.strength = s]
    /\ Fresh

SpecKernel == InitKernel /\ [][KernelNext]_vars

(***************************************************************************)
(* Properties                                                              *)
(***************************************************************************)
\* The result names with which a load reports that the name has no descriptor.
NotFoundResults == {"StyleNotFound", "UnknownStyle"}

\* C1: no load call begun after a load of the same name has returned
\* success invokes the byte-fetch collaborator.
C1_SecondLoadDoesNotFetch == ~refetched

\* C2: a handle stored in the cache under a name is stored under that name,
\* the same handle, in the next state, whatever step is taken.
C2_HandleNeverReplaced ==
    [][/\ \A n \in DOMAIN LOADED_MODELS :
            n \in DOMAIN LOADED_MODELS' /\ LOADED_MODELS'[n] = LOADED_MODELS[n]
       /\ \A n \in DOMAIN eng_models :
            n \in DOMAIN eng_models' /\ eng_models'[n] = eng_models[n]]_vars

\* C3: a load whose fetch was rejected, answered with a non-ok status, or
\* answered with a payload that fails validation returns an error and leaves
\* no cache entry for the name.
C3_NoPoisonedEntry ==
    (/\ last.op = "load"
     /\ last.fetched
     /\ (last.resp.net = "reject" \/ ~last.resp.ok \/ ~OnnxValidateModel(last.resp.body)))
        => /\ last.res # "Ok"
           /\ ~MapHas(onnx_models, last.name)
           /\ ~MapHas(reg_model_cache, last.name)

\* C4: a load for a name without a descriptor reports style-not-found,
\* does not invoke the byte-fetch collaborator, and leaves the cache as it was.
C4_UnknownNameNotFound ==
    (last.op \in {"load", "st_load"} /\ ~last.known)
        => /\ last.res \in NotFoundResults
           /\ ~last.fetched
           /\ ~last.cacheChanged

\* C4 witness: an engine holding a model has refused an unknown name.
C4_Witness ==
    /\ last.op = "load"
    /\ last.name = UnknownStyle
    /\ last.res = "StyleNotFound"
    /\ onnx_models # EmptyMap

\* C5: is_loaded answers true exactly when the cache holds a handle for the name.
C5_IsLoadedIffCached ==
    last.op = "is_loaded" => (last.flag <=> last.wasLoaded)

\* The result names with which a run reports that no model is loaded for
\* the style.
NotLoadedResults == {"ModelNotLoaded", "StyleNotLoaded", "EngineNotInitialized"}

\* A run was made for a registered style while the cache held no handle for it.
RunOnUnloaded == last.op = "run" /\ last.known /\ ~last.wasLoaded

C7_SuccessIsComplete ==
    (unit = "onnx" /\ last.op = "run" /\ last.res = "Ok")
        => /\ last.outLen = last.w * last.h * 4
           /\ last.outLen = last.imgLen

\* C8: the values one run passes to the progress callback lie in [0,100]
\* and are strictly increasing.
C8_ProgressIncreasing ==
    last.op = "run"
        => /\ \A i \in 1..Len(last.progress) :
                last.progress[i] >= 0 /\ last.progress[i] <= 100
           /\ \A i \in 1..(Len(last.progress) - 1) :
                last.progress[i] < last.progress[i + 1]

\* C8 witness: a run has invoked the callback at every milestone.
C8_Witness ==
    /\ unit = "engine"
    /\ last.op = "run"
    /\ last.res = "Ok"
    /\ Len(last.progress) = Len(ProgressMilestones)
    /\ Len(last.progress) > 1

\* C9: the run just made returned what the same run returns with a callback
\* that returns from every invocation.
C9_CallbackDoesNotAffectResult ==
    (unit = "engine" /\ last.op = "run")
        => LET quiet == EngTransferStep(eng_initialized, eng_models,
                                        last.imgLen, last.name, 0) IN
           last.res = quiet.res /\ last.outLen = quiet.outLen

\* C10: a load during which the GPU could not be obtained does not fail for
\* that reason, builds its session on the CPU backend, and succeeds exactly
\* when the remaining steps do.
C10_GpuFailureFallsBackToCpu ==
    (last.op = "st_load" /\ last.known /\ ~last.gpuOk)
        => /\ last.res # "BackendUnavailable"
           /\ last.backend # "webgpu"
           /\ (last.res = "Ok"
                 <=> last.dataOk /\ last.modelOk /\ last.runtime \notin {"env", "builder"})


\* The last call was one of the blend functions.
Blended(ops) == codec.op \in ops

\* The bytes of the whole pixels of a buffer, alpha bytes replaced by 255.
Opaque(buf) ==
    [i \in 1..(4 * (Len(buf) \div 4)) |-> IF i % 4 = 0 THEN 255 ELSE buf[i]]

WholePixels(buf) == Len(buf) % 4 = 0

\* C11: blend called with an original and a produced buffer of different
\* lengths fails with an invalid-dimensions error and returns no buffer, at
\* every blend entry point.
C11_LengthMismatchFails ==
    (Blended({"blend_rgba", "blend_images", "blend_with_original"})
        /\ Len(codec.o) # Len(codec.p))
    => codec.res = "InvalidDims"

\* C12: blend uses the strength clamped to [0,1]: a strength below 0 gives
\* the result of strength 0 and a strength above 1 the result of strength 1,
\* and the call does not fail because of the strength.
C12_StrengthClamped ==
    Blended({"blend_rgba", "utils_blend_images", "blend_with_original"})
    => LET clamped == BlendBy(codec.op, codec.o, codec.p, Clamp01(codec.s2))
       IN codec.res = clamped.res /\ codec.data = clamped.data

\* C13 as the specification states it: for equal-length buffers, blend at
\* strength 0 returns the original and blend at strength 1 returns the
\* produced buffer, byte for byte.
C13_EndpointsByteForByte ==
    (Blended({"blend_rgba", "blend_images"}) /\ Len(codec.o) = Len(codec.p)
        /\ WholePixels(codec.o) /\ codec.s2 \in {0, 2})
    => /\ codec.res = "Ok"
       /\ codec.data = (IF codec.s2 = 0 THEN codec.o ELSE codec.p)

\* C13: for equal-length buffers of whole pixels, blend at strength 0
\* returns the colour bytes of the original and blend at strength 1 the
\* colour bytes of the produced buffer, every alpha byte being 255.
C13_EndpointsUpToAlpha ==
    (Blended({"blend_rgba", "blend_images"}) /\ Len(codec.o) = Len(codec.p)
        /\ WholePixels(codec.o) /\ codec.s2 \in {0, 2})
    => /\ codec.res = "Ok"
       /\ codec.data = Opaque(IF codec.s2 = 0 THEN codec.o ELSE codec.p)

C13_Witness ==
    /\ Blended({"blend_rgba"})
    /\ codec.s2 = 0
    /\ codec.o = PixelA \o PixelB
    /\ codec.p = PixelB \o PixelB
    /\ codec.data = Opaque(codec.o)
    /\ codec.data # codec.o

\* C14: in the output of blend the alpha byte of every pixel is 255,
\* whatever the alpha bytes of the inputs and the strength, at every blend
\* entry point.
C14_AlphaOpaque ==
    (Blended({"blend_rgba", "blend_with_original", "apply_style_transform"})
        /\ codec.res = "Ok")
    => \A i \in 1..Len(codec.data) : i % 4 = 0 => codec.data[i] = 255


\* The image held has exactly w * h pixels.
ValidImage == Len(codec.o) = codec.w * codec.h * 4

\* C15: encode fails with an invalid-dimensions error whenever the length
\* of the image buffer differs from w*h*4; it neither panics nor returns a
\* tensor.
C15_EncodeChecksLength ==
    (codec.op \in {"nchw_from_rgba", "onnx_preprocess_image"} /\ ~ValidImage)
    => codec.res = "InvalidDims"

\* C16: encode and decode called with width 0 or height 0 fail with an
\* invalid-dimensions error; they do not panic or return an empty result.
C16_ZeroDimsRejected ==
    (codec.op \in {"nchw_from_rgba", "rgba_from_nchw", "postprocess_image_data"}
        /\ (codec.w = 0 \/ codec.h = 0))
    => codec.res = "InvalidDims"

\* C17: when the source and the destination dimensions are equal, the
\* resize returns a buffer byte-identical to its input, for every image.
C17_IdentityResize ==
    (codec.op = "resize" /\ codec.w = codec.dw /\ codec.h = codec.dh)
    => codec.res = "Ok" /\ codec.data = codec.o

C17_Witness ==
    /\ codec.op = "resize"
    /\ codec.w = 2 /\ codec.dw = 2 /\ codec.h = 1 /\ codec.dh = 1
    /\ codec.o = PixelB \o PixelC
    /\ codec.data = codec.o

\* C18: for an image of w*h pixels, encode writes the normalised value of
\* channel c of pixel (x, y) at index c*w*h + y*w + x, the tensor has
\* exactly 3*w*h elements, and no element depends on an alpha byte.
C18_PlanarLayout ==
    (codec.op \in Encoders /\ ValidImage
        /\ (codec.op # "nchw_from_rgba" => codec.w = codec.h))
    => /\ codec.res = "Ok"
       /\ Len(codec.tensor) = 3 * codec.w * codec.h
       /\ \A xy \in Coords(codec.w, codec.h), c \in 0..2 :
             codec.tensor[c * codec.w * codec.h + xy[2] * codec.w + xy[1] + 1]
                = NormaliseBy(codec.op, codec.o[(xy[2] * codec.w + xy[1]) * 4 + c + 1], codec.prof, c + 1)
       /\ \A a \in {0, 255} :
             codec.tensor = EncodeBy(codec.op, WithAlpha(codec.o, a), codec.w, codec.h, codec.prof).tensor

C18_Witness ==
    /\ codec.op = "preprocess_image_data"
    /\ codec.w = 2 /\ codec.h = 2
    /\ codec.o = PixelRun(4)
    /\ Len(codec.tensor) = 12
    /\ codec.tensor[7] = FromInt(PixelA[2])
    /\ codec.tensor[2] = FromInt(PixelC[1])

\* The decoder has run on the tensor that nchw_from_rgba made of an image
\* of w*h pixels.
RoundTripped ==
    codec.op = "rgba_from_nchw" /\ codec.enc = "nchw_from_rgba" /\ ValidImage

\* Each colour byte of the decoded image is within 1 of the original's.
WithinOne ==
    /\ codec.res = "Ok"
    /\ Len(codec.data) = Len(codec.o)
    /\ \A i \in 1..Len(codec.o) : i % 4 # 0 => Abs(codec.data[i] - codec.o[i]) <= 1

\* C19 as the specification states it: for every profile with std and scale
\* other than 0, the colour bytes of decode(encode(image)) are within 1 of
\* the image's.
C19_RoundTripAnyProfile == RoundTripped => WithinOne

\* C19: for the profiles whose mean, std and scale are of the order of the
\* channel range (identity, scale 255, ImageNet), the colour bytes of
\* decode(encode(image)) are within 1 of the image's.
C19_RoundTripModerateProfile ==
    (RoundTripped /\ codec.prof \in ModerateProfiles) => WithinOne

C19_Witness ==
    /\ RoundTripped
    /\ codec.prof = ProfileImageNet
    /\ codec.o \in GreyPixels
    /\ codec.data[1] = codec.o[1] - 1


Validators == {"onnx_validate_onnx_model", "models_validate_onnx_model"}

\* C20: a payload is accepted only if its length is at least the minimum
\* threshold and its first four bytes are the magic sequence, and every
\* validation routine gives the same verdict on the same payload.
C20_OneValidationRule ==
    codec.op \in Validators
    => /\ codec.res = "accepted" => (codec.pay.len >= MinModelLen /\ codec.pay.magic)
       /\ codec.res = Verdict(OnnxValidateModel(codec.pay))
       /\ codec.res = Verdict(ModelsValidateOnnxModel(codec.pay))


\* The names of the registry the behaviour instantiates, in the order in
\* which they were first registered.
RegistrationOrder ==
    CASE unit = "onnx" -> OnnxStyleOrder
      [] unit = "models" -> ModelsStyleOrder
      [] unit = "registry" ->
            SelectSeq(<<InfoVanGogh.name, InfoPicasso.name>>, LAMBDA k : k \in DOMAIN reg_models)

\* C21: list_styles returns the descriptors in registration order, the same
\* on every call.
C21_ListedInRegistrationOrder ==
    last.op = "list" => last.listed = RegistrationOrder

\* C22: once the registry holds descriptors, no operation changes the set
\* of descriptors or a descriptor's fields; a descriptor registered under a
\* name is never overwritten by a later registration.
C22_DescriptorsNeverChange ==
    [][\A n \in DOMAIN reg_models :
          /\ n \in DOMAIN reg_models'
          /\ reg_models'[n] = reg_models[n]]_vars


\* C23: every initialize() succeeds and leaves initialized true and the GPU
\* context present; no step undoes either; and while both hold, is_ready()
\* returns true.
C23_ReadyAfterInitialize ==
    [][/\ last'.op = "initialize" =>
            last'.res = "Ok" /\ eng_initialized' /\ eng_gpu_context'
       /\ eng_initialized /\ eng_gpu_context => eng_initialized' /\ eng_gpu_context'
       /\ last'.op = "is_ready" /\ eng_initialized' /\ eng_gpu_context' => last'.flag]_vars

\* is_ready() answered true on an engine that was initialised and then
\* loaded a style.
C23_Witness ==
    /\ unit = "engine"
    /\ last.op = "is_ready"
    /\ last.flag
    /\ eng_models # EmptyMap

\* C24: for a source of exactly sw*sh*4 bytes with sw, sh >= 1 and a
\* destination with dw, dh >= 1, the resize does not panic, the neighbour
\* coordinates of every destination pixel satisfy x_l <= x_h <= sw-1 and
\* y_l <= y_h <= sh-1, and every byte it reads lies inside the source.
C24_ReadsInsideSource ==
    (codec.op = "resize" /\ ValidImage
        /\ codec.w >= 1 /\ codec.h >= 1 /\ codec.dw >= 1 /\ codec.dh >= 1)
    => /\ codec.res = "Ok"
       /\ \A xy \in Coords(codec.dw, codec.dh) :
             LET x_l == BilinearLow(xy[1], codec.w, codec.dw)
                 x_h == BilinearHigh(xy[1], codec.w, codec.dw)
                 y_l == BilinearLow(xy[2], codec.h, codec.dh)
                 y_h == BilinearHigh(xy[2], codec.h, codec.dh)
             IN /\ 0 <= x_l /\ x_l <= x_h /\ x_h <= codec.w - 1
                /\ 0 <= y_l /\ y_l <= y_h /\ y_h <= codec.h - 1
                /\ (y_h * codec.w + x_h) * 4 + 3 < Len(codec.o)

\* A two by two image resized to one by two: the upper neighbour of the
\* only column is held back at the last column, that of the second row at
\* the last row.
C24_Witness ==
    /\ codec.op = "resize" /\ ValidImage /\ codec.res = "Ok"
    /\ codec.w = 2 /\ codec.h = 2 /\ codec.dw = 1 /\ codec.dh = 2
    /\ BilinearHigh(0, codec.w, codec.dw) = 1
    /\ BilinearLow(1, codec.h, codec.dh) = 0
    /\ BilinearHigh(1, codec.h, codec.dh) = 1
    /\ Len(codec.data) = 8

\* C25: a transfer that returns an image for a style name has been
\* preceded, in the same engine, by a successful load of that name.
C25_TransferPrecededByLoad ==
    (unit = "engine" /\ last.op \in {"run", "quick_run"} /\ last.res = "Ok")
        => last.name \in succeeded

\* C26: in ONNXStyleTransferEngine a name is marked loaded in loaded_models
\* if and only if models holds a payload for it, and every such name has a
\* descriptor in model_metadata; so the lookups that apply_style_transfer
\* unwraps after its loaded test find their entries.
C26_LoadedIffPayload ==
    unit = "onnx" =>
        \A n \in OnnxCallNames \cup DOMAIN onnx_models \cup DOMAIN onnx_loaded_models :
            /\ OnnxIsLoaded(onnx_loaded_models, n) <=> MapHas(onnx_models, n)
            /\ OnnxIsLoaded(onnx_loaded_models, n) => OnnxHasMetadata(n)

\* apply_style_transfer has passed its loaded test for a name and returned.
C26_Witness ==
    /\ unit = "onnx"
    /\ last.op = "run" /\ last.res = "Ok"
    /\ OnnxIsLoaded(onnx_loaded_models, last.name)
    /\ MapHas(onnx_models, last.name)

\* C27: in style_transfer::StyleTransferEngine session and current_model
\* are both set or both unset in every state; a load_model call that fails
\* leaves both as they were; and a stylize_image call that gets as far as
\* the model uses the descriptor held, which is that of the last successful
\* load_model.
C27_SessionAndModelTogether ==
    /\ (st_session.some <=> st_current_model.some)
    /\ [][/\ st_session'.some <=> st_current_model'.some
          /\ (last'.op = "st_load" /\ last'.res # "Ok")
                => (st_session' = st_session /\ st_current_model' = st_current_model)
          /\ last'.op # "st_load"
                => (st_session' = st_session /\ st_current_model' = st_current_model)
          /\ (last'.op = "st_load" /\ last'.res = "Ok")
                => (st_session'.some /\ st_current_model'.info.name = last'.name)
          /\ (last'.op = "stylize" /\ last'.name # "")
                => (st_session.some /\ last'.name = st_current_model.info.name)]_vars

\* van-gogh was loaded, a load of picasso then failed, and stylize_image
\* still ran with van-gogh.
C27_Witness ==
    /\ unit = "registry"
    /\ last.op = "stylize" /\ last.res = "Ok" /\ last.name = "van-gogh"
    /\ st_session.some /\ st_current_model.some
    /\ MapHas(reg_model_cache, "picasso")
    /\ ~reg_model_cache["picasso"].runtimeOk

\* C28: once a load_model call of the stylizer has returned success, the
\* state that run_style reads holds the metadata given to that call; a
\* second successful load_model with other metadata takes effect.
C28_LatestLoadTakesEffect ==
    (unit = "stylizer" /\ last.op = "load" /\ last.res = "Ok")
        => /\ sty_STATE.some
           /\ sty_STATE.meta.model_url = last.name

\* C30: for every buffer, whatever its length, and every width, height and
\* target size of at least 1, preprocess_image_data and
\* ImageProcessor::preprocess_image return 3 * target_size * target_size
\* values and index nothing outside their buffers.
C30_PreprocessTotal ==
    (codec.op \in {"preprocess_image_data", "utils_preprocess_image"}
        /\ codec.w >= 1 /\ codec.h >= 1)
    => /\ codec.res = "Ok"
       /\ Len(codec.tensor) = 3 * codec.w * codec.w

\* The last call was a transfer of StyleTransferEngine that returned a buffer.
Transferred == codec.op \in {"transfer_style", "quick_transfer_style"} /\ codec.res = "Ok"

\* C29: the buffer that transfer_style and quick_transfer_style return has
\* the length and every alpha byte of the input image, for every style name
\* and strength, and is the input image byte for byte when style_strength
\* is 0.
C29_StrengthZeroIsIdentity ==
    Transferred
    => /\ Len(codec.data) = Len(codec.o)
       /\ \A j \in 1..Len(codec.o) : j % 4 = 0 => codec.data[j] = codec.o[j]
       /\ codec.strength = 0 => codec.data = codec.o

====
